---- MODULE Spec2Model ----
(***************************************************************************)
(* Astra launchpad program (contracts/programs/astra): the bonding curve,  *)
(* the fee split, the position ledger and the launch lifecycle, one action *)
(* per instruction.                                                        *)
(*                                                                         *)
(* TLC evaluates 32-bit integers.  Values of the program that are wider    *)
(* (u64/u128 products, 10^12, token amounts with 9 decimals) are carried   *)
(* as pairs <<hi, lo>> standing for hi * WB + lo, and products followed by *)
(* a division are computed by MulDivQR, which never forms the product.     *)
(* The amounts the model draws (lamports in the hundreds) keep every       *)
(* result of the curve inside that range; the results are the ones the     *)
(* Rust code computes on the same inputs.                                  *)
(***************************************************************************)
EXTENDS Integers, Sequences, FiniteSets, TLC

(***************************************************************************)
(* Program constants (constants.rs)                                        *)
(***************************************************************************)
WB == 1000000000

MIN_SEED_USD == 40
MAX_SEED_USD == 20000
TOKENS_FOR_HOLDERS == 800000000
TOTAL_FEE_BPS == 100
CREATOR_FEE_UNVERIFIED_BPS == 30
CREATOR_FEE_VERIFIED_BPS == 50
BPS_DENOMINATOR == 10000
VESTING_DURATION_SECONDS == 3628800
LAUNCH_DURATION_SECONDS == 604800
\* 1_000_000_000_000 lamports = 1000 * WB
MAX_BUY_LAMPORTS == <<1000, 0>>
CURVE_SLOPE == 781250
\* 1_000_000_000_000 = 1000 * WB
CURVE_SCALE == <<1000, 0>>
LAMPORTS_PER_SOL == 1000000000

\* poke.rs: the split of the (simulated) yield, in basis points
CALLER_BPS == 100
CREATOR_BPS == 6000
PROTOCOL_BPS == 1000
TOTAL_BPS == 10000
SIMULATED_YIELD == 1000000

\* Rent::get()?.minimum_balance(space): the lamports an account of the program
\* must keep, paid by the payer of its `init`; the host fixes the values, the
\* model takes small ones.  The accounts of the token program and those paid
\* for by the authority of force_graduate are funded outside the balances the
\* model carries.
LaunchRent == 50
PositionRent == 20
CreatorStatsRent == 20
TokenAccountRent == 30

None == -1
NoKey == "None"

(***************************************************************************)
(* Wide arithmetic                                                         *)
(***************************************************************************)
Min(a, b) == IF a <= b THEN a ELSE b

\* One step of the binary expansion of a product by a: st is << a, tq, tr,
\* q, r >> where tq * c + tr is the current term b * 2^i and q * c + r the
\* sum of the terms taken so far.
MulDivStep(st, c) ==
    << st[1] \div 2,
       IF st[1] \div 2 = 0 THEN 0 ELSE 2 * st[2] + ((2 * st[3]) \div c),
       (2 * st[3]) % c,
       IF st[1] % 2 = 1 THEN st[4] + st[2] + ((st[5] + st[3]) \div c) ELSE st[4],
       IF st[1] % 2 = 1 THEN (st[5] + st[3]) % c ELSE st[5] >>

RECURSIVE MulDivLoop(_, _)
MulDivLoop(st, c) ==
    IF st[1] = 0 THEN << st[4], st[5] >> ELSE MulDivLoop(MulDivStep(st, c), c)

\* <<q, r>> with a * b = q * c + r and 0 <= r < c, for 0 <= a, 0 <= b,
\* 0 < c <= 2^30, without forming a * b (binary expansion of the smaller
\* factor).
MulDivQR(a, b, c) ==
    IF a = 0 \/ b = 0 THEN <<0, 0>>
    ELSE IF a <= 46340 /\ b <= 46340 THEN <<(a * b) \div c, (a * b) % c>>
    ELSE IF a <= b THEN MulDivLoop(<< a, b \div c, b % c, 0, 0 >>, c)
    ELSE MulDivLoop(<< b, a \div c, a % c, 0, 0 >>, c)

\* floor(a * b / c)
MulDiv(a, b, c) == MulDivQR(a, b, c)[1]

\* a * b as a wide value
WideMul(a, b) == MulDivQR(a, b, WB)

\* hi * WB + lo as a wide value, for lo that may exceed WB
WideCarry(hi, lo) == << hi + (lo \div WB), lo % WB >>

\* q + floor((r + t) / c) for a quotient and remainder p = <<q, r>> by c
QuotientWith(p, t, c) == p[1] + ((p[2] + t) \div c)

\* the sum of the quotients of p2 and p3 by c, with the carry of their
\* remainders
QuotientSum(p2, p3, c) == p2[1] + p3[1] + ((p2[2] + p3[2]) \div c)

\* p1 = <<q1, r1>> is a * w[1] by c: the wide q1 * WB + floor((r1 * WB +
\* a * w[2]) / c)
MulWideDivLow(p1, a, w, c) ==
    WideCarry(p1[1], QuotientSum(MulDivQR(p1[2], WB, c), MulDivQR(a, w[2], c), c))

\* floor(a * (w[1] * WB + w[2]) / c) for a wide w, as a wide value
MulWideDiv(a, w, c) == MulWideDivLow(MulDivQR(a, w[1], c), a, w, c)

\* floor(a * (w[1] * WB + w[2]) / (d[1] * WB)) for wide w and d, d[2] = 0
MulWideDivWide(a, w, d) ==
    QuotientWith(MulDivQR(a, w[1], d[1]), MulDiv(a, w[2], WB), d[1])

\* floor((w[1] * WB + w[2]) / x) for a wide w and 0 < x <= 2^30
WideDivInt(w, x) == QuotientWith(MulDivQR(w[1], WB, x), w[2], x)

\* a <= w for an integer a and a wide w
LeqWide(a, w) ==
    \/ a \div WB < w[1]
    \/ a \div WB = w[1] /\ a % WB <= w[2]

WideAdd(v, w) == << v[1] + w[1] + ((v[2] + w[2]) \div WB), (v[2] + w[2]) % WB >>

WideSub(v, w) ==
    IF v[2] >= w[2] THEN << v[1] - w[1], v[2] - w[2] >>
    ELSE << v[1] - w[1] - 1, v[2] + WB - w[2] >>

WideLeq(v, w) == v[1] < w[1] \/ (v[1] = w[1] /\ v[2] <= w[2])

WideZero == <<0, 0>>

(***************************************************************************)
(* curve.rs                                                                *)
(***************************************************************************)
\* the bit length of an integer
RECURSIVE BitLenInt(_)
BitLenInt(n) ==
    IF n = 0 THEN 0
    ELSE IF n >= 65536 THEN 16 + BitLenInt(n \div 65536)
    ELSE IF n >= 256 THEN 8 + BitLenInt(n \div 256)
    ELSE 1 + BitLenInt(n \div 2)

\* st is << hi, lo, k >>: the wide value halved k times
RECURSIVE BitLenLoop(_)
BitLenLoop(st) ==
    IF st[1] = 0 THEN st[3] + BitLenInt(st[2])
    ELSE BitLenLoop(<< st[1] \div 2, (st[2] + (st[1] % 2) * WB) \div 2, st[3] + 1 >>)

\* the bit length of a wide n
BitLen(n) == BitLenLoop(<< n[1], n[2], 0 >>)

RECURSIVE Pow2(_)
Pow2(k) ==
    IF k = 0 THEN 1
    ELSE IF k >= 8 THEN 256 * Pow2(k - 8)
    ELSE 2 * Pow2(k - 1)

\* y = (x + q) / 2 for q = n / x, formed without the sum
NewtonStep(x, q) == (x \div 2) + (q \div 2) + (((x % 2) + (q % 2)) \div 2)

\* the loop of integer_sqrt: if y >= x { return x } x = y
RECURSIVE NewtonLoop(_, _)
NewtonNext(x, y, n) == IF y >= x THEN x ELSE NewtonLoop(y, n)

NewtonLoop(x, n) == NewtonNext(x, NewtonStep(x, WideDivInt(n, x)), n)

\* a variant whose initial guess is 2^(bits / 2)
integer_sqrt_low_guess(n) ==
    IF n[1] = 0 /\ n[2] < 2 THEN n[2]
    ELSE NewtonLoop(Pow2(BitLen(n) \div 2), n)

\* integer_sqrt of a wide n below 2^60: 128 - leading_zeros(n) is the bit
\* length of n
integer_sqrt(n) ==
    IF n[1] = 0 /\ n[2] < 2 THEN n[2]
    ELSE NewtonLoop(Pow2((BitLen(n) + 1) \div 2), n)

(***************************************************************************)
(* integer_sqrt at the full width of u128.  A u128 is five limbs of 28     *)
(* bits, the lowest first; five limbs hold 140 bits, so that a sum beyond  *)
(* 2^128 - 1 is formed and seen to overflow.                               *)
(***************************************************************************)
\* 2^28
LimbBase == 268435456

BigZero == <<0, 0, 0, 0, 0>>
BigOne == <<1, 0, 0, 0, 0>>
\* an integer below 2^31 as limbs
IntToBig(n) == << n % LimbBase, n \div LimbBase, 0, 0, 0 >>

\* the value is at most u128::MAX: 2^128 is 2^16 in the fifth limb
FitsU128(a) == a[5] < 65536

\* a <= b
BigLeq(a, b) ==
    \/ a = b
    \/ \E j \in 1..5 : a[j] < b[j] /\ \A k \in (j + 1)..5 : a[k] = b[k]

\* the carry into limb i of a + b
BigCarry(a, b, i) ==
    \E j \in 1..(i - 1) :
        /\ a[j] + b[j] >= LimbBase
        /\ \A k \in (j + 1)..(i - 1) : a[k] + b[k] = LimbBase - 1

BigAddLimb(a, b, i) == (a[i] + b[i] + (IF BigCarry(a, b, i) THEN 1 ELSE 0)) % LimbBase

\* a + b, for a sum below 2^140
BigAdd(a, b) ==
    << BigAddLimb(a, b, 1), BigAddLimb(a, b, 2), BigAddLimb(a, b, 3),
       BigAddLimb(a, b, 4), BigAddLimb(a, b, 5) >>

\* the borrow from limb i of a - b
BigBorrow(a, b, i) ==
    \E j \in 1..(i - 1) :
        /\ a[j] < b[j]
        /\ \A k \in (j + 1)..(i - 1) : a[k] = b[k]

BigSubLimb(a, b, i) ==
    (a[i] - b[i] - (IF BigBorrow(a, b, i) THEN 1 ELSE 0) + LimbBase) % LimbBase

\* a - b, for b <= a
BigSub(a, b) ==
    << BigSubLimb(a, b, 1), BigSubLimb(a, b, 2), BigSubLimb(a, b, 3),
       BigSubLimb(a, b, 4), BigSubLimb(a, b, 5) >>

\* a / 2
BigHalf(a) ==
    << (a[1] \div 2) + ((a[2] % 2) * (LimbBase \div 2)),
       (a[2] \div 2) + ((a[3] % 2) * (LimbBase \div 2)),
       (a[3] \div 2) + ((a[4] % 2) * (LimbBase \div 2)),
       (a[4] \div 2) + ((a[5] % 2) * (LimbBase \div 2)),
       a[5] \div 2 >>

\* 2 * a + bit, for a below 2^139
BigDoubleBit(a, bit) ==
    << ((2 * a[1]) % LimbBase) + bit,
       ((2 * a[2]) % LimbBase) + (a[1] \div (LimbBase \div 2)),
       ((2 * a[3]) % LimbBase) + (a[2] \div (LimbBase \div 2)),
       ((2 * a[4]) % LimbBase) + (a[3] \div (LimbBase \div 2)),
       ((2 * a[5]) % LimbBase) + (a[4] \div (LimbBase \div 2)) >>

\* 2^k, for k < 140
BigPow2(k) ==
    << IF k \div 28 = 0 THEN Pow2(k % 28) ELSE 0,
       IF k \div 28 = 1 THEN Pow2(k % 28) ELSE 0,
       IF k \div 28 = 2 THEN Pow2(k % 28) ELSE 0,
       IF k \div 28 = 3 THEN Pow2(k % 28) ELSE 0,
       IF k \div 28 = 4 THEN Pow2(k % 28) ELSE 0 >>

\* bit k of a
BigBit(a, k) == (a[(k \div 28) + 1] \div Pow2(k % 28)) % 2

\* 128 - a.leading_zeros(): the bit length of a
BigBitLen(a) ==
    IF a = BigZero THEN 0
    ELSE BitLenInt(a[5]) + 28 * 4
           - (IF a[5] = 0 THEN 28 - BitLenInt(a[4]) ELSE 0)
           - (IF a[5] = 0 /\ a[4] = 0 THEN 28 - BitLenInt(a[3]) ELSE 0)
           - (IF a[5] = 0 /\ a[4] = 0 /\ a[3] = 0 THEN 28 - BitLenInt(a[2]) ELSE 0)
           - (IF a[5] = 0 /\ a[4] = 0 /\ a[3] = 0 /\ a[2] = 0
              THEN 28 - BitLenInt(a[1]) ELSE 0)

\* The division of u128, bit by bit from the top: st is << k, rem, quot >>,
\* the bits above k of n are taken, rem is what is left of them and quot
\* their quotient by x.
DivTake(k, rem, quot, x) ==
    IF BigLeq(x, rem) THEN << k - 1, BigSub(rem, x), BigAdd(quot, BigPow2(k)) >>
    ELSE << k - 1, rem, quot >>

DivStep(st, n, x) == DivTake(st[1], BigDoubleBit(st[2], BigBit(n, st[1])), st[3], x)

\* up to 2^j steps
RECURSIVE DivSteps(_, _, _, _)
DivSteps(st, j, n, x) ==
    IF st[1] < 0 THEN st
    ELSE IF j = 0 THEN DivStep(st, n, x)
    ELSE DivSteps(DivSteps(st, j - 1, n, x), j - 1, n, x)

\* limb i of a, 0 beyond the fifth
BigLimb(a, i) == IF i <= 5 THEN a[i] ELSE 0

BigShiftLimb(a, limbs, bits, i) ==
    (BigLimb(a, i + limbs) \div Pow2(bits))
      + ((BigLimb(a, i + limbs + 1) % Pow2(bits)) * Pow2(28 - bits))

\* a >> k
BigShiftRight(a, k) ==
    << BigShiftLimb(a, k \div 28, k % 28, 1), BigShiftLimb(a, k \div 28, k % 28, 2),
       BigShiftLimb(a, k \div 28, k % 28, 3), BigShiftLimb(a, k \div 28, k % 28, 4),
       BigShiftLimb(a, k \div 28, k % 28, 5) >>

\* the division starts below the top bits of n that are fewer than the
\* bits of x, their quotient being 0: `low` bits of n are left to take
BigDivFrom(n, x, low) ==
    IF low <= 0 THEN BigZero
    ELSE DivSteps(<< low - 1, BigShiftRight(n, low), BigZero >>, 7, n, x)[3]

\* n / x, for x > 0
BigDiv(n, x) == BigDivFrom(n, x, BigBitLen(n) - BigBitLen(x) + 1)

\* The loop of integer_sqrt: y = (x + n / x) / 2; if y >= x { return x };
\* x = y.  The sum is an overflow when it is beyond u128::MAX.
RECURSIVE NewtonLoopU128(_, _)
NewtonNextU128(x, y, n) ==
    IF BigLeq(x, y) THEN [val |-> x, overflow |-> FALSE] ELSE NewtonLoopU128(y, n)

NewtonSumU128(x, sum, n) ==
    IF ~FitsU128(sum) THEN [val |-> x, overflow |-> TRUE]
    ELSE NewtonNextU128(x, BigHalf(sum), n)

NewtonLoopU128(x, n) == NewtonSumU128(x, BigAdd(x, BigDiv(n, x)), n)

\* a variant that starts the loop from n
integer_sqrt_u128_from_n(n) ==
    IF BigLeq(n, BigOne) THEN [val |-> n, overflow |-> FALSE]
    ELSE NewtonLoopU128(n, n)

\* integer_sqrt of a u128: shift = (128 - n.leading_zeros() + 1) / 2 is at
\* most 64, so that 1u128 << shift does not overflow
integer_sqrt_u128(n) ==
    IF BigLeq(n, BigOne) THEN [val |-> n, overflow |-> FALSE]
    ELSE NewtonLoopU128(BigPow2((BigBitLen(n) + 1) \div 2), n)

\* The product of a and b below 2^84 (three limbs each), by columns: column
\* c takes the low limbs of the products a[i] * b[c + 1 - i] and the high
\* limbs of the products a[i] * b[c - i].
LimbProduct(a, b, i, j) ==
    IF j < 1 \/ j > 3 THEN <<0, 0>> ELSE MulDivQR(a[i], b[j], LimbBase)

BigMulColumn(a, b, c) ==
    LimbProduct(a, b, 1, c)[2] + LimbProduct(a, b, 2, c - 1)[2]
      + LimbProduct(a, b, 3, c - 2)[2]
      + LimbProduct(a, b, 1, c - 1)[1] + LimbProduct(a, b, 2, c - 2)[1]
      + LimbProduct(a, b, 3, c - 3)[1]

\* the columns with their carries taken to the next limb
RECURSIVE BigCarryLoop(_, _, _)
BigCarryLoop(cols, carry, out) ==
    IF Len(out) = 5 THEN out
    ELSE BigCarryLoop(cols, (cols[Len(out) + 1] + carry) \div LimbBase,
                      Append(out, (cols[Len(out) + 1] + carry) % LimbBase))

BigMul(a, b) ==
    BigCarryLoop(<< BigMulColumn(a, b, 1), BigMulColumn(a, b, 2), BigMulColumn(a, b, 3),
                    BigMulColumn(a, b, 4), BigMulColumn(a, b, 5) >>, 0, << >>)

\* a wide value as limbs
WideToBig(w) == BigAdd(BigMul(IntToBig(w[1]), IntToBig(WB)), IntToBig(w[2]))

\* buy_quote(shares_out, current_supply): the cost of the shares.  The
\* checked u128 operations cannot fail for arguments within the model's
\* range, and costs stay below 2^31.
buy_quote(shares_out, current_supply) ==
    IF shares_out = 0 THEN 0
    ELSE LET s_current   == current_supply
             s_new       == s_current + shares_out
             s_new_sq    == WideMul(s_new, s_new)
             s_curr_sq   == WideMul(s_current, s_current)
             delta_sq    == WideSub(s_new_sq, s_curr_sq)
             denominator == << 2 * CURVE_SCALE[1], 2 * CURVE_SCALE[2] >>
         IN  MulWideDivWide(CURVE_SLOPE, delta_sq, denominator)

\* a variant that leaves out the factor 2 of the cost
buy_return_without_factor_two(sol_amount, current_supply) ==
    IF sol_amount = 0 THEN 0
    ELSE LET term1       == MulWideDiv(sol_amount, CURVE_SCALE, CURVE_SLOPE)
             s_curr_sq   == WideMul(current_supply, current_supply)
             inside_sqrt == WideAdd(term1, s_curr_sq)
             s_new       == integer_sqrt(inside_sqrt)
         IN  s_new - current_supply

\* a variant that mints one share more than the square root allows
buy_return_one_more(sol_amount, current_supply) ==
    IF sol_amount = 0 THEN 0
    ELSE LET term1       == MulWideDiv(2 * sol_amount, CURVE_SCALE, CURVE_SLOPE)
             s_curr_sq   == WideMul(current_supply, current_supply)
             inside_sqrt == WideAdd(term1, s_curr_sq)
             s_new       == integer_sqrt(inside_sqrt) + 1
         IN  s_new - current_supply

\* buy_return(sol_amount, current_supply): shares for the amount.  The checked
\* u128 operations cannot fail for arguments within the model's range.
buy_return(sol_amount, current_supply) ==
    IF sol_amount = 0 THEN 0
    ELSE LET term1       == MulWideDiv(2 * sol_amount, CURVE_SCALE, CURVE_SLOPE)
             s_curr_sq   == WideMul(current_supply, current_supply)
             inside_sqrt == WideAdd(term1, s_curr_sq)
             s_new       == integer_sqrt(inside_sqrt)
         IN  s_new - current_supply

\* a variant that rounds the refund up
sell_return_rounds_up(shares_to_sell, user_shares, user_basis) ==
    IF shares_to_sell = 0 THEN [err |-> "Ok", val |-> 0]
    ELSE IF user_shares = 0 THEN [err |-> "InvalidCalculation", val |-> 0]
    ELSE LET p == MulDivQR(shares_to_sell, user_basis, user_shares)
         IN  [err |-> "Ok", val |-> p[1] + (IF p[2] > 0 THEN 1 ELSE 0)]

\* sell_return(shares_to_sell, user_shares, user_basis): [err, val]
sell_return(shares_to_sell, user_shares, user_basis) ==
    IF shares_to_sell = 0 THEN [err |-> "Ok", val |-> 0]
    ELSE IF user_shares = 0 THEN [err |-> "InvalidCalculation", val |-> 0]
    ELSE [err |-> "Ok", val |-> MulDiv(shares_to_sell, user_basis, user_shares)]

(***************************************************************************)
(* Identities and the bounds of the model                                  *)
(***************************************************************************)
Creator == "creator"
Holders == {"alice", "bob"}
Users == {Creator} \cup Holders
Admin == "admin"
Operator == "operator"
Launch == "launch"
FeeWallet == "protocol_fee_wallet"

\* lamports each user starts with
InitialFunds == [u \in Users |-> IF u = "bob" THEN 300 ELSE 1000]
\* the price the price feed reports (USD per SOL); with it MIN_SEED_USD is
\* 40 lamports and MAX_SEED_USD 20000 lamports
Prices == {1000000000}
SeedAmounts == {30, 100, 25000}
BuyAmounts == {0, 100, 400}
\* the clock starts here and advances in these steps up to MaxTime
StartTime == 1000
TickSteps == {VESTING_DURATION_SECONDS \div 2}
MaxTime == 3629800
\* successful buys and sells of one run
MaxTrades == 2
\* successful buys and sells of one run of the trades of a launch alone
MaxDeepTrades == 5
\* total_sol never grows beyond this (2_560_000 * MaxTotalSol < 2^31)
MaxTotalSol == 800
\* successful pokes of one run
MaxPokes == 1
\* config.total_launches never grows beyond this
MaxLaunches == 2
\* a min_shares_out no buy of the model reaches
HugeShares == 1000000
\* the fee split is computed for the amounts 1 .. MaxFeeAmount (two periods
\* of BPS_DENOMINATOR)
MaxFeeAmount == 20000
\* integer_sqrt is applied to every n in 0 .. MaxSqrtDense and to the powers
\* of two up to 2^MaxSqrtBit
MaxSqrtDense == 2000
MaxSqrtBit == 29
\* buy_return is applied to every amount in 0 .. MaxReturnDense
MaxReturnDense == 40
\* the yield split is computed for every yield in 0 .. MaxYieldDense
MaxYieldDense == 120
\* successful pokes of one run of the yield split
MaxYieldPokes == 4

(***************************************************************************)
(* State: the accounts of the program (state/*.rs), the lamport and token  *)
(* balances and the clock.                                                 *)
(***************************************************************************)
VARIABLES
    config,         \* GlobalConfig
    lifecycle,      \* of the launch account: "None", "Open", "Closed"
    launch,         \* Launch: the launch of Creator that the model follows
    position,       \* Position, per user
    creator_stats,  \* CreatorStats, per creator
    vault,          \* Vault
    lamports,       \* lamport balance per account
    tokens,         \* token balance per user, wide
    now,            \* Clock::get()?.unix_timestamp
    trades,         \* successful buys and sells so far
    deposited,      \* per user: net lamports credited as basis by buys, summed
    paid_out,       \* per user: lamports paid by sells, summed
    pending,        \* the instruction suspended in a cross-program call, if any
    calc            \* the argument and the result of a computation on its own

vars == << config, lifecycle, launch, position, creator_stats, vault, lamports,
           tokens, now, trades, deposited, paid_out, pending, calc >>

ZeroLaunch ==
    [ creator |-> NoKey, total_shares |-> 0, total_sol |-> 0,
      creator_seed_shares |-> 0, creator_seed_sol |-> 0,
      graduated |-> FALSE, refund_mode |-> FALSE,
      token_mint |-> NoKey, pool_address |-> NoKey, vault |-> NoKey,
      vesting_start |-> None, creator_claimed_shares |-> 0,
      created_at |-> 0, graduated_at |-> None, refund_enabled_at |-> None,
      operation_in_progress |-> FALSE,
      creator_accrued_fees |-> 0, protocol_accrued_fees |-> 0,
      total_shares_at_graduation |-> 0 ]

ZeroPosition ==
    [ exists |-> FALSE, shares |-> 0, sol_basis |-> 0, locked_shares |-> 0,
      vested_shares_claimed |-> 0,
      has_claimed_tokens |-> FALSE, has_claimed_refund |-> FALSE,
      first_buy_at |-> 0, last_updated_at |-> 0 ]

\* lp_balance (the square root of a 27-digit product) is not carried.
ZeroVault ==
    [ exists |-> FALSE, activated |-> FALSE,
      total_yield_collected |-> 0, total_creator_paid |-> 0,
      total_protocol_paid |-> 0, total_compounded |-> 0, total_caller_paid |-> 0,
      last_poke_at |-> 0 ]

NoOut ==
    [ total_fee |-> 0, creator_fee |-> 0, protocol_fee |-> 0, net_sol |-> 0,
      shares |-> 0, paid |-> 0, tokens |-> <<0, 0>> ]

\* the accounts an instruction works on
Accounts ==
    [ config |-> config, lifecycle |-> lifecycle, launch |-> launch,
      position |-> position, creator_stats |-> creator_stats, vault |-> vault,
      lamports |-> lamports, tokens |-> tokens ]

\* what a handler returns: the error (or "Ok"), the accounts as the handler
\* left them in memory, and the amounts it computed
Ret(e, S, o) == [err |-> e, S |-> S, out |-> o]

(***************************************************************************)
(* state/config.rs, state/creator_stats.rs                                 *)
(***************************************************************************)
\* usd_to_lamports: None when the price is 0
usd_to_lamports(cfg, usd_amount) ==
    IF cfg.sol_price_usd = 0 THEN None
    ELSE MulDiv(usd_amount, LAMPORTS_PER_SOL, cfg.sol_price_usd)

\* is_price_stale: the cached price is more than 5 minutes old
is_price_stale(cfg, current_time) == current_time - cfg.price_last_updated > 300

\* a variant for which no creator is ever verified
is_verified_never(stats) == stats.graduated_count < 0

is_verified(stats) == stats.graduated_count > 0

\* a variant that asks for a second graduation before the verified tier
get_creator_fee_bps_second_graduation(stats) ==
    IF stats.graduated_count > 1 THEN CREATOR_FEE_VERIFIED_BPS
    ELSE CREATOR_FEE_UNVERIFIED_BPS

get_creator_fee_bps(stats) ==
    IF is_verified(stats) THEN CREATOR_FEE_VERIFIED_BPS
    ELSE CREATOR_FEE_UNVERIFIED_BPS

\* system_program::transfer: fails when the payer holds less than the amount
CanPay(S, from, amount) == S.lamports[from] >= amount

Transfer(S, from, to, amount) ==
    [S EXCEPT !.lamports[from] = @ - amount, !.lamports[to] = @ + amount]

\* `init, payer = payer`: the payer funds the new account with its rent; the
\* balance of a position or creator_stats account is its rent and is not
\* listed among the lamports
PayRent(S, payer, rent) == [S EXCEPT !.lamports[payer] = @ - rent]

\* `close = receiver`: the lamports of the closed position account (its rent)
\* go to the receiver
CloseTo(S, receiver, rent) == [S EXCEPT !.lamports[receiver] = @ + rent]

\* a creator_stats account as `init_if_needed` creates it
ZeroCreatorStats ==
    [ initialized |-> FALSE, creator |-> NoKey, graduated_count |-> 0,
      total_fees_earned |-> 0, total_launches |-> 0 ]

\* the creator_stats account of a creator who has graduated one launch
VerifiedCreatorStats(creator) ==
    [ initialized |-> TRUE, creator |-> creator, graduated_count |-> 1,
      total_fees_earned |-> 0, total_launches |-> 1 ]

\* the accounts before any instruction, written as tables, entry by entry
NoPositions ==
    (Creator :> ZeroPosition) @@ ("alice" :> ZeroPosition) @@ ("bob" :> ZeroPosition)
InitialLamports ==
    (Creator :> InitialFunds[Creator]) @@ ("alice" :> InitialFunds["alice"])
        @@ ("bob" :> InitialFunds["bob"])
        @@ (Launch :> 0) @@ (FeeWallet :> 0) @@ ("pool" :> 0)
NoTokens ==
    (Creator :> WideZero) @@ ("alice" :> WideZero) @@ ("bob" :> WideZero)
        @@ (Launch :> WideZero)

NoCreatorStats ==
    (Creator :> ZeroCreatorStats) @@ ("alice" :> ZeroCreatorStats)
        @@ ("bob" :> ZeroCreatorStats)

(***************************************************************************)
(* instructions/create_launch.rs                                           *)
(***************************************************************************)
\* a variant that hands the seed shares to the creator unlocked
create_launch_init_position_unlocked(S, creator, shares, t) ==
    [S EXCEPT
        !.position[creator].shares = shares,
        !.position[creator].sol_basis = 0,
        !.position[creator].locked_shares = 0,
        !.position[creator].vested_shares_claimed = 0,
        !.position[creator].first_buy_at = t,
        !.position[creator].last_updated_at = t]

\* 5. Initialize Creator Position
create_launch_init_position(S, creator, shares, t) ==
    [S EXCEPT
        !.position[creator].shares = 0,
        !.position[creator].sol_basis = 0,
        !.position[creator].locked_shares = shares,
        !.position[creator].vested_shares_claimed = 0,
        !.position[creator].first_buy_at = t,
        !.position[creator].last_updated_at = t]

\* the accounts of CreateLaunch as Anchor validates them: the launch, the
\* creator's position and (on a first launch) the creator_stats account are
\* created at the creator's expense in the order of the struct, and the
\* constraint of config is checked after them
create_launch_accounts(S, creator) ==
    IF ~CanPay(S, creator, LaunchRent) THEN Ret("InsufficientLamports", S, NoOut)
    ELSE IF ~CanPay(S, creator, LaunchRent + PositionRent)
    THEN Ret("InsufficientLamports",
             [Transfer(S, creator, Launch, LaunchRent) EXCEPT
                 !.lifecycle = "Open", !.launch = ZeroLaunch],
             NoOut)
    ELSE IF ~S.creator_stats[creator].initialized
            /\ ~CanPay(S, creator, LaunchRent + PositionRent + CreatorStatsRent)
    THEN Ret("InsufficientLamports",
             [PayRent(Transfer(S, creator, Launch, LaunchRent), creator, PositionRent)
                EXCEPT !.lifecycle = "Open", !.launch = ZeroLaunch,
                       !.position[creator] = [ZeroPosition EXCEPT !.exists = TRUE]],
             NoOut)
    ELSE Ret(IF S.config.paused THEN "ProtocolPaused" ELSE "Ok",
             [PayRent(Transfer(S, creator, Launch, LaunchRent), creator,
                      PositionRent
                        + (IF S.creator_stats[creator].initialized THEN 0
                           ELSE CreatorStatsRent))
                EXCEPT !.lifecycle = "Open", !.launch = ZeroLaunch,
                       !.position[creator] = [ZeroPosition EXCEPT !.exists = TRUE],
                       !.creator_stats[creator].initialized = TRUE],
             NoOut)

\* CreateLaunchArgs; len() of a String counts its bytes, and the names the
\* model draws are ASCII
CreateLaunchArgs(name, symbol, uri, seed_lamports) ==
    [name |-> name, symbol |-> symbol, uri |-> uri, seed_lamports |-> seed_lamports]

create_launch_handler(S, creator, args, t) ==
    LET S0 == S
        seed_lamports == args.seed_lamports
        min_lamports == usd_to_lamports(S0.config, MIN_SEED_USD)
        max_lamports == usd_to_lamports(S0.config, MAX_SEED_USD)
    IN
    IF ~(Len(args.name) > 0 /\ Len(args.name) <= 50)
    THEN Ret("InvalidCalculation", S0, NoOut)
    ELSE IF ~(Len(args.symbol) > 0 /\ Len(args.symbol) <= 10)
    THEN Ret("InvalidCalculation", S0, NoOut)
    ELSE IF ~(Len(args.uri) > 0 /\ Len(args.uri) <= 200)
    THEN Ret("InvalidCalculation", S0, NoOut)
    ELSE IF ~(seed_lamports > 0) THEN Ret("InvalidCalculation", S0, NoOut)
    ELSE IF min_lamports = None THEN Ret("PriceOracleUnavailable", S0, NoOut)
    ELSE IF ~(seed_lamports >= min_lamports) THEN Ret("SeedAmountTooLow", S0, NoOut)
    ELSE IF max_lamports = None THEN Ret("PriceOracleUnavailable", S0, NoOut)
    ELSE IF ~(seed_lamports <= max_lamports) THEN Ret("SeedAmountTooHigh", S0, NoOut)
    ELSE
    LET fee         == (seed_lamports * TOTAL_FEE_BPS) \div BPS_DENOMINATOR
        net_deposit == seed_lamports - fee
        shares      == buy_return(net_deposit, 0)
        out         == [NoOut EXCEPT !.total_fee = fee, !.protocol_fee = fee,
                                     !.net_sol = net_deposit, !.shares = shares]
        S1 == create_launch_init_position(
                [S0 EXCEPT
                  !.launch.creator = creator,
                  !.launch.total_shares = shares,
                  !.launch.total_sol = net_deposit,
                  !.launch.creator_seed_shares = shares,
                  !.launch.creator_seed_sol = net_deposit,
                  !.launch.graduated = FALSE,
                  !.launch.refund_mode = FALSE,
                  !.launch.creator_accrued_fees = 0,
                  !.launch.protocol_accrued_fees = 0,
                  !.launch.created_at = t],
                creator, shares, t)
        \* 6. Initialize/Update Creator Stats, and record_launch
        S2 == IF S1.creator_stats[creator].creator = NoKey
              THEN [S1 EXCEPT !.creator_stats[creator] =
                        [initialized |-> TRUE, creator |-> creator,
                         graduated_count |-> 0,
                         total_fees_earned |-> 0, total_launches |-> 0 + 1]]
              ELSE [S1 EXCEPT !.creator_stats[creator].total_launches = @ + 1]
    IN
    IF ~CanPay(S2, creator, fee) THEN Ret("InsufficientLamports", S2, out)
    ELSE
    LET S3 == Transfer(S2, creator, FeeWallet, fee)
    IN
    IF ~CanPay(S3, creator, net_deposit) THEN Ret("InsufficientLamports", S3, out)
    ELSE
    LET S4 == Transfer(S3, creator, Launch, net_deposit)
    IN  Ret("Ok", [S4 EXCEPT !.config.total_launches = @ + 1], out)

\* The launch account is the PDA of "launch", the creator and
\* config.total_launches, a new address at every call: whatever launches
\* exist, the instruction works on a launch account, a position (its seeds
\* hold the launch) and, later, a vault, a pool and token accounts that do
\* not exist yet.
NewLaunchAccounts(S) ==
    [S EXCEPT !.lifecycle = "None", !.launch = ZeroLaunch,
              !.position = NoPositions, !.vault = ZeroVault,
              !.lamports[Launch] = 0, !.lamports["pool"] = 0,
              !.tokens = NoTokens]

\* the accounts of the launch of S with what an instruction on another
\* launch, which left R, wrote to the accounts that launches share: the
\* program's config, the creator_stats accounts and the wallets
SharedAccounts(S, R) ==
    [S EXCEPT !.config = R.config, !.creator_stats = R.creator_stats,
              !.lamports = [R.lamports EXCEPT ![Launch] = S.lamports[Launch],
                                              !["pool"] = S.lamports["pool"]]]

\* The model follows one launch at a time, a launch of Creator: `launch`,
\* `position`, `vault`, `tokens` and the lamports of Launch and "pool" are
\* its accounts.  The launch a call creates becomes the one followed unless
\* one is open or the creator is somebody else.
Followed(S, creator) == creator = Creator /\ S.lifecycle # "Open"

\* the instruction on the accounts of the new launch: the accounts as Anchor
\* validates them, then the handler
create_launch_on(N, creator, args, t) ==
    IF create_launch_accounts(N, creator).err # "Ok"
    THEN create_launch_accounts(N, creator)
    ELSE create_launch_handler(create_launch_accounts(N, creator).S,
                               creator, args, t)

\* the instruction; of a launch created beside the one followed the model
\* keeps what the two share
create_launch(S, creator, args, t) ==
    LET r == create_launch_on(NewLaunchAccounts(S), creator, args, t)
    IN  IF Followed(S, creator) THEN r
        ELSE Ret(r.err, SharedAccounts(S, r.S), r.out)

(***************************************************************************)
(* instructions/buy.rs                                                     *)
(***************************************************************************)
\* a variant that forgets the AlreadyGraduated constraint
buy_constraints_no_graduated(S) ==
    IF S.launch.refund_mode THEN "RefundModeActive" ELSE "Ok"

\* `creator_stats` is the account at the seeds of launch.creator; it is
\* deserialized before the position is created
buy_accounts(S) ==
    IF S.launch.creator \notin Users THEN "AccountNotInitialized"
    ELSE IF ~S.creator_stats[S.launch.creator].initialized THEN "AccountNotInitialized"
    ELSE "Ok"

\* the account constraints of Buy
buy_constraints(S) ==
    IF S.launch.graduated THEN "AlreadyGraduated"
    ELSE IF S.launch.refund_mode THEN "RefundModeActive"
    ELSE "Ok"

\* a variant that charges the protocol's part at the total rate
buy_fees_protocol_at_total_rate(sol_amount, creator_fee_bps) ==
    LET total_fee    == (sol_amount * TOTAL_FEE_BPS) \div BPS_DENOMINATOR
        creator_fee  == (sol_amount * creator_fee_bps) \div BPS_DENOMINATOR
        protocol_fee == (sol_amount * TOTAL_FEE_BPS) \div BPS_DENOMINATOR
    IN  [NoOut EXCEPT !.total_fee = total_fee, !.creator_fee = creator_fee,
                      !.protocol_fee = protocol_fee,
                      !.net_sol = sol_amount - total_fee]

\* steps 1 and 2 of the handler: the fee split of a gross amount
buy_fees(sol_amount, creator_fee_bps) ==
    LET protocol_fee_bps == TOTAL_FEE_BPS - creator_fee_bps
        total_fee    == (sol_amount * TOTAL_FEE_BPS) \div BPS_DENOMINATOR
        creator_fee  == (sol_amount * creator_fee_bps) \div BPS_DENOMINATOR
        protocol_fee == (sol_amount * protocol_fee_bps) \div BPS_DENOMINATOR
    IN  [NoOut EXCEPT !.total_fee = total_fee, !.creator_fee = creator_fee,
                      !.protocol_fee = protocol_fee,
                      !.net_sol = sol_amount - total_fee]

\* a variant that credits the basis with the gross amount
buy_update_state_gross_basis(S, buyer, out, t) ==
    [S EXCEPT
        !.position[buyer].shares = @ + out.shares,
        !.position[buyer].sol_basis = @ + out.net_sol + out.total_fee,
        !.position[buyer].last_updated_at = t,
        !.launch.total_shares = @ + out.shares,
        !.launch.total_sol = @ + out.net_sol,
        !.launch.creator_accrued_fees = @ + out.creator_fee,
        !.launch.protocol_accrued_fees = @ + out.protocol_fee]

\* a variant that credits the basis and leaves the shares off the position
buy_update_state_without_shares(S, buyer, out, t) ==
    [S EXCEPT
        !.position[buyer].sol_basis = @ + out.net_sol,
        !.position[buyer].last_updated_at = t,
        !.launch.total_shares = @ + out.shares,
        !.launch.total_sol = @ + out.net_sol,
        !.launch.creator_accrued_fees = @ + out.creator_fee,
        !.launch.protocol_accrued_fees = @ + out.protocol_fee]

\* steps 5 and 6 of the handler: the position and the launch are credited
buy_update_state(S, buyer, out, t) ==
    [S EXCEPT
        !.position[buyer].shares = @ + out.shares,
        !.position[buyer].sol_basis = @ + out.net_sol,
        !.position[buyer].last_updated_at = t,
        !.launch.total_shares = @ + out.shares,
        !.launch.total_sol = @ + out.net_sol,
        !.launch.creator_accrued_fees = @ + out.creator_fee,
        !.launch.protocol_accrued_fees = @ + out.protocol_fee]

\* a variant that lets a result one share short of the minimum through
buy_slippage_ok_one_short(shares, min_shares_out) == shares >= min_shares_out - 1

\* step 4 of the handler: the slippage check
buy_slippage_ok(shares, min_shares_out) == shares >= min_shares_out

\* the handler up to its first cross-program call (the transfer of step 7)
buy_before_cpi(S, buyer, sol_amount, min_shares_out, t) ==
    IF ~(sol_amount > 0) THEN Ret("InvalidCalculation", S, NoOut)
    ELSE IF ~LeqWide(sol_amount, MAX_BUY_LAMPORTS) THEN Ret("InvalidCalculation", S, NoOut)
    ELSE IF ~(min_shares_out > 0) THEN Ret("InvalidCalculation", S, NoOut)
    ELSE IF S.launch.operation_in_progress THEN Ret("InvalidCalculation", S, NoOut)
    ELSE
    LET S1   == [S EXCEPT !.launch.operation_in_progress = TRUE]
        fees == buy_fees(sol_amount, get_creator_fee_bps(S1.creator_stats[S1.launch.creator]))
        net_sol == fees.net_sol
        shares  == buy_return(net_sol, S1.launch.total_shares)
        out     == [fees EXCEPT !.shares = shares]
    IN
    IF ~buy_slippage_ok(shares, min_shares_out) THEN Ret("SlippageExceeded", S1, out)
    ELSE
    LET S2 == IF S1.position[buyer].first_buy_at = 0
              THEN [S1 EXCEPT !.position[buyer].first_buy_at = t,
                              !.position[buyer].vested_shares_claimed = 0]
              ELSE S1
    IN  Ret("Ok", buy_update_state(S2, buyer, out, t), out)

\* a variant that sends the launch account the net amount without the
\* creator fee
buy_after_cpi_without_creator_fee(S, buyer, out) ==
    IF ~CanPay(S, buyer, out.protocol_fee + out.net_sol)
    THEN Ret("InsufficientLamports", S, out)
    ELSE Ret("Ok",
             [Transfer(Transfer(S, buyer, FeeWallet, out.protocol_fee),
                       buyer, Launch, out.net_sol)
                 EXCEPT !.launch.operation_in_progress = FALSE],
             out)

\* 7. Transfer Protocol Fee to Treasury
buy_transfer_fee(S, buyer, out) ==
    IF ~CanPay(S, buyer, out.protocol_fee) THEN Ret("InsufficientLamports", S, out)
    ELSE Ret("Ok", Transfer(S, buyer, FeeWallet, out.protocol_fee), out)

\* a variant that does not pass on the failure of the transfer
buy_transfer_to_launch_failure_ignored(S, buyer, out) ==
    IF ~CanPay(S, buyer, out.net_sol + out.creator_fee)
    THEN Ret("Ok", [S EXCEPT !.launch.operation_in_progress = FALSE], out)
    ELSE Ret("Ok",
             [Transfer(S, buyer, Launch, out.net_sol + out.creator_fee)
                 EXCEPT !.launch.operation_in_progress = FALSE],
             out)

\* 8. Transfer Creator Fee + Net SOL to Launch PDA, and the reset of the
\* marker at the end of the handler
buy_transfer_to_launch(S, buyer, out) ==
    IF ~CanPay(S, buyer, out.net_sol + out.creator_fee)
    THEN Ret("InsufficientLamports", S, out)
    ELSE Ret("Ok",
             [Transfer(S, buyer, Launch, out.net_sol + out.creator_fee)
                 EXCEPT !.launch.operation_in_progress = FALSE],
             out)

\* the two transfers (steps 7 and 8) and the reset of the marker
buy_after_cpi(S, buyer, out) ==
    IF buy_transfer_fee(S, buyer, out).err # "Ok" THEN buy_transfer_fee(S, buyer, out)
    ELSE buy_transfer_to_launch(buy_transfer_fee(S, buyer, out).S, buyer, out)

buy_handler(S, buyer, sol_amount, min_shares_out, t) ==
    LET r == buy_before_cpi(S, buyer, sol_amount, min_shares_out, t)
    IN  IF r.err # "Ok" THEN r ELSE buy_after_cpi(r.S, buyer, r.out)

\* `init_if_needed, payer = buyer`: on a first buy the position account is
\* created at the buyer's expense
buy_init_position(S, buyer) ==
    IF S.position[buyer].exists THEN Ret("Ok", S, NoOut)
    ELSE IF ~CanPay(S, buyer, PositionRent) THEN Ret("InsufficientLamports", S, NoOut)
    ELSE Ret("Ok",
             [PayRent(S, buyer, PositionRent) EXCEPT
                 !.position[buyer] = [ZeroPosition EXCEPT !.exists = TRUE]],
             NoOut)

\* the instruction: init_if_needed of the position, the constraints of the
\* launch (checked after the accounts are created), the handler
buy(S, buyer, sol_amount, min_shares_out, t) ==
    IF buy_accounts(S) # "Ok" THEN Ret(buy_accounts(S), S, NoOut)
    ELSE IF buy_init_position(S, buyer).err # "Ok" THEN buy_init_position(S, buyer)
    ELSE IF buy_constraints(S) # "Ok"
    THEN Ret(buy_constraints(S), buy_init_position(S, buyer).S, NoOut)
    ELSE buy_handler(buy_init_position(S, buyer).S,
                     buyer, sol_amount, min_shares_out, t)

(***************************************************************************)
(* instructions/sell.rs                                                    *)
(***************************************************************************)
\* the position account is loaded before the constraints of the launch are
\* checked
sell_constraints(S, seller) ==
    IF ~S.position[seller].exists THEN "AccountNotInitialized"
    ELSE IF S.launch.graduated THEN "AlreadyGraduated"
    ELSE IF S.launch.refund_mode THEN "RefundModeActive"
    ELSE "Ok"

\* a variant that forgets to take the sold shares off the total
sell_update_launch_keeps_shares(S, shares_to_sell, refund_amount) ==
    [S EXCEPT !.launch.total_sol = @ - refund_amount]

\* the launch totals after a sale (both by checked_sub)
sell_update_launch(S, shares_to_sell, refund_amount) ==
    [S EXCEPT !.launch.total_shares = @ - shares_to_sell,
              !.launch.total_sol = @ - refund_amount]

\* a variant that leaves the basis of the position as it was
sell_update_position_keeps_basis(S, seller, shares_to_sell, refund_amount, t) ==
    [S EXCEPT !.position[seller].shares = @ - shares_to_sell,
              !.position[seller].last_updated_at = t]

\* step 3 of the handler: the position after a sale (both by checked_sub)
sell_update_position(S, seller, shares_to_sell, refund_amount, t) ==
    [S EXCEPT !.position[seller].shares = @ - shares_to_sell,
              !.position[seller].sol_basis = @ - refund_amount,
              !.position[seller].last_updated_at = t]

\* a variant that keeps the buy-side fee rate of the refund
sell_net_refund_charges_fee(refund_amount) ==
    refund_amount - (refund_amount * TOTAL_FEE_BPS) \div BPS_DENOMINATOR

\* step 2 of the handler: no fee is taken off the refund
sell_net_refund(refund_amount) == refund_amount

\* a variant that lets one share more than held through
sell_validate_one_share_over(pos, shares_to_sell, min_sol_out) ==
    IF ~(shares_to_sell > 0) THEN "InvalidCalculation"
    ELSE IF ~(shares_to_sell <= pos.shares + 1) THEN "InsufficientShares"
    ELSE IF ~(min_sol_out <= pos.sol_basis) THEN "InvalidCalculation"
    ELSE "Ok"

\* the input validation of the handler
sell_validate(pos, shares_to_sell, min_sol_out) ==
    IF ~(shares_to_sell > 0) THEN "InvalidCalculation"
    ELSE IF ~(shares_to_sell <= pos.shares) THEN "InsufficientShares"
    ELSE IF ~(min_sol_out <= pos.sol_basis) THEN "InvalidCalculation"
    ELSE "Ok"

sell_handler(S, seller, shares_to_sell, min_sol_out, t) ==
    LET pos == S.position[seller]
        invalid == sell_validate(pos, shares_to_sell, min_sol_out)
    IN
    IF invalid # "Ok" THEN Ret(invalid, S, NoOut)
    ELSE IF S.launch.operation_in_progress THEN Ret("InvalidCalculation", S, NoOut)
    ELSE
    LET S1 == [S EXCEPT !.launch.operation_in_progress = TRUE]
        r  == sell_return(shares_to_sell, pos.shares, pos.sol_basis)
        refund_amount == r.val
        net_refund    == sell_net_refund(refund_amount)
        out == [NoOut EXCEPT !.shares = shares_to_sell, !.paid = net_refund]
    IN
    IF r.err # "Ok" THEN Ret(r.err, S1, NoOut)
    ELSE IF ~(net_refund >= min_sol_out) THEN Ret("SlippageExceeded", S1, out)
    ELSE IF pos.sol_basis < refund_amount THEN Ret("MathOverflow", S1, out)
    ELSE
    LET S2 == sell_update_position(S1, seller, shares_to_sell, refund_amount, t)
    IN
    IF S2.launch.total_shares < shares_to_sell THEN Ret("MathOverflow", S2, out)
    ELSE IF S2.launch.total_sol < refund_amount THEN
        Ret("MathOverflow", [S2 EXCEPT !.launch.total_shares = @ - shares_to_sell], out)
    ELSE
    LET S3 == sell_update_launch(S2, shares_to_sell, refund_amount)
    IN
    IF S3.lamports[Launch] < net_refund THEN Ret("MathOverflow", S3, out)
    ELSE
    LET S4 == Transfer(S3, Launch, seller, net_refund)
    IN  Ret("Ok", [S4 EXCEPT !.launch.operation_in_progress = FALSE], out)

sell(S, seller, shares_to_sell, min_sol_out, t) ==
    IF sell_constraints(S, seller) # "Ok" THEN Ret(sell_constraints(S, seller), S, NoOut)
    ELSE sell_handler(S, seller, shares_to_sell, min_sol_out, t)

(***************************************************************************)
(* instructions/force_graduate.rs, and graduate (the operator's variant)   *)
(***************************************************************************)
\* TOTAL_SUPPLY * 1_000_000_000 and TOKENS_FOR_LP * 1_000_000_000, wide
TotalSupplyUnits == <<1000000000, 0>>
TokensForLpUnits == <<200000000, 0>>

force_graduate_constraints(S, authority) ==
    IF authority # Admin THEN "Unauthorized"
    ELSE IF S.launch.graduated THEN "AlreadyGraduated"
    ELSE IF S.launch.refund_mode THEN "RefundModeActive"
    ELSE "Ok"

\* a variant that starts the vesting clock but takes no snapshot
force_graduate_update_launch_without_snapshot(S, t) ==
    [S EXCEPT
        !.launch.graduated = TRUE,
        !.launch.graduated_at = t,
        !.launch.vesting_start = t,
        !.launch.token_mint = "mint",
        !.launch.pool_address = "pool",
        !.launch.vault = "vault"]

\* 5. Update Launch State
force_graduate_update_launch(S, t) ==
    [S EXCEPT
        !.launch.graduated = TRUE,
        !.launch.graduated_at = t,
        !.launch.vesting_start = t,
        !.launch.token_mint = "mint",
        !.launch.pool_address = "pool",
        !.launch.vault = "vault",
        !.launch.total_shares_at_graduation = S.launch.total_shares]

\* What force_graduate meets outside the repository: the System Program
\* refuses a transfer out of an account that carries data (strict) or
\* carries it out; the pool program, when its call returns, has taken the
\* liquidity it was offered (raydium) or has moved nothing; and the account
\* passed as token_1_mint is a mint that exists (token_1_mint) or the mint
\* this instruction is about to create.
Host(strict, raydium, token_1_mint) ==
    [strict |-> strict, raydium |-> raydium, token_1_mint |-> token_1_mint]

\* the System Program carries out the transfer, the pool takes its tokens
\* and token_1_mint is a mint that exists
Lenient == Host(FALSE, TRUE, TRUE)

\* the accounts of ForceGraduate as Anchor validates them, before any
\* constraint: token_1_mint and creator_stats (not `init`) are loaded with
\* the other accounts, creator_stats at the seeds of launch.creator,
\* and then the `init` accounts are created, which the System Program
\* refuses for an address in use: the wSOL account of the launch and the
\* vault (seeds "vault" + launch) exist once the launch has graduated
force_graduate_accounts(S, host) ==
    IF ~host.token_1_mint THEN "AccountNotInitialized"
    ELSE IF S.launch.creator \notin Users THEN "AccountNotInitialized"
    ELSE IF ~S.creator_stats[S.launch.creator].initialized THEN "AccountNotInitialized"
    ELSE IF S.vault.exists THEN "System:AccountAlreadyInUse"
    ELSE "Ok"

\* 3. Create Raydium CPMM Pool: the pool takes init_amount_1 of the tokens of
\* the launch token account (the wrapped lamports are with "pool" already)
raydium_initialize(S, init_amount_1, host) ==
    IF host.raydium THEN [S EXCEPT !.tokens[Launch] = WideSub(@, init_amount_1)]
    ELSE S

force_graduate_handler(S, t, host) ==
    IF S.launch.operation_in_progress THEN Ret("InvalidCalculation", S, NoOut)
    ELSE
    LET S1 == [S EXCEPT !.launch.operation_in_progress = TRUE]
        sol_amount == S1.launch.total_sol
        out == [NoOut EXCEPT !.paid = sol_amount, !.shares = S1.launch.total_shares]
    IN
    IF ~(sol_amount > 0) THEN Ret("InvalidCalculation", S1, NoOut)
    \* 1. Wrap SOL: system_program::transfer from the launch account
    ELSE IF host.strict THEN Ret("SystemTransferFromCarriesData", S1, out)
    ELSE IF ~CanPay(S1, Launch, sol_amount) THEN Ret("InsufficientLamports", S1, out)
    ELSE
    LET \* 2. Mint Total Supply to the launch token account, 3. the pool
        S2 == raydium_initialize(
                [Transfer(S1, Launch, "pool", sol_amount) EXCEPT
                    !.tokens[Launch] = WideAdd(@, TotalSupplyUnits)],
                TokensForLpUnits, host)
        \* 4. vault, 5. launch state, 6. creator stats
        S3 == [force_graduate_update_launch(S2, t) EXCEPT
                  !.vault = [ZeroVault EXCEPT !.exists = TRUE, !.activated = TRUE,
                                              !.total_yield_collected = 0,
                                              !.last_poke_at = t],
                  !.creator_stats[S2.launch.creator].graduated_count = @ + 1]
    IN  Ret("Ok", [S3 EXCEPT !.launch.operation_in_progress = FALSE], out)

force_graduate(S, authority, t, host) ==
    IF force_graduate_accounts(S, host) # "Ok"
    THEN Ret(force_graduate_accounts(S, host), S, NoOut)
    ELSE IF force_graduate_constraints(S, authority) # "Ok"
    THEN Ret(force_graduate_constraints(S, authority), S, NoOut)
    ELSE force_graduate_handler(S, t, host)

\* graduate: instructions/graduate.rs is not among the sources; by the
\* specification it is the operator's call with the same transition.
graduate(S, caller, t, host) ==
    IF caller # Operator THEN Ret("Unauthorized", S, NoOut)
    ELSE IF S.launch.graduated THEN Ret("AlreadyGraduated", S, NoOut)
    ELSE IF S.launch.refund_mode THEN Ret("RefundModeActive", S, NoOut)
    ELSE force_graduate_handler(S, t, host)

(***************************************************************************)
(* instructions/enable_refund.rs                                           *)
(***************************************************************************)
\* a variant that asks for more than the duration
is_launch_expired_after(l, t) == t > l.created_at + LAUNCH_DURATION_SECONDS

is_launch_expired(l, t) == t >= l.created_at + LAUNCH_DURATION_SECONDS

\* a variant that forgets the AlreadyGraduated constraint
enable_refund_constraints_no_graduated(S, t) ==
    IF S.launch.refund_mode THEN "RefundModeAlreadyActive"
    ELSE IF ~is_launch_expired(S.launch, t) THEN "LaunchNotExpired"
    ELSE "Ok"

enable_refund_constraints(S, t) ==
    IF S.launch.graduated THEN "AlreadyGraduated"
    ELSE IF S.launch.refund_mode THEN "RefundModeAlreadyActive"
    ELSE IF ~is_launch_expired(S.launch, t) THEN "LaunchNotExpired"
    ELSE "Ok"

enable_refund_handler(S, t) ==
    Ret("Ok", [S EXCEPT !.launch.refund_mode = TRUE,
                        !.launch.refund_enabled_at = t], NoOut)

enable_refund(S, t) ==
    IF enable_refund_constraints(S, t) # "Ok"
    THEN Ret(enable_refund_constraints(S, t), S, NoOut)
    ELSE enable_refund_handler(S, t)

(***************************************************************************)
(* instructions/claim_refund.rs, push_refund.rs, close_launch.rs           *)
(***************************************************************************)
SatSub(a, b) == IF a >= b THEN a - b ELSE 0

\* a variant that forgets the AlreadyClaimed constraint
refund_constraints_ignores_claimed(S, user) ==
    IF ~S.position[user].exists THEN "AccountNotInitialized"
    ELSE IF ~S.launch.refund_mode THEN "RefundModeNotActive"
    ELSE "Ok"

\* the position account is loaded before the constraints are checked
refund_constraints(S, user) ==
    IF ~S.position[user].exists THEN "AccountNotInitialized"
    ELSE IF ~S.launch.refund_mode THEN "RefundModeNotActive"
    ELSE IF S.position[user].has_claimed_refund THEN "AlreadyClaimed"
    ELSE "Ok"

claim_refund_handler(S, user) ==
    LET pos == S.position[user]
        refund_amount == pos.sol_basis
        out == [NoOut EXCEPT !.paid = refund_amount]
    IN
    IF refund_amount = 0
    THEN Ret("Ok", [S EXCEPT !.position[user].has_claimed_refund = TRUE], out)
    ELSE
    LET available == SatSub(S.lamports[Launch], LaunchRent)
    IN
    IF ~(available >= refund_amount) THEN Ret("InsufficientFunds", S, out)
    ELSE
    LET S1 == Transfer(S, Launch, user, refund_amount)
    IN  Ret("Ok",
            [S1 EXCEPT
                !.position[user].has_claimed_refund = TRUE,
                !.launch.total_shares = SatSub(@, pos.shares),
                !.launch.total_sol = SatSub(@, pos.sol_basis)],
            out)

claim_refund(S, user) ==
    IF refund_constraints(S, user) # "Ok" THEN Ret(refund_constraints(S, user), S, NoOut)
    ELSE claim_refund_handler(S, user)

push_refund_handler(S, recipient) ==
    LET pos == S.position[recipient]
        refund_amount == pos.sol_basis
        out == [NoOut EXCEPT !.paid = refund_amount]
    IN
    IF refund_amount = 0 THEN Ret("Ok", S, out)
    ELSE
    LET available == SatSub(S.lamports[Launch], LaunchRent)
    IN
    IF ~(available >= refund_amount) THEN Ret("InsufficientFunds", S, out)
    ELSE
    LET S1 == Transfer(S, Launch, recipient, refund_amount)
        total_position_shares == pos.shares + pos.locked_shares
    IN  Ret("Ok",
            [S1 EXCEPT
                !.launch.total_sol = SatSub(@, pos.sol_basis),
                !.launch.total_shares = SatSub(@, total_position_shares)],
            out)

\* `close = caller`: a successful push closes the position account, and its
\* rent goes to the caller
push_refund(S, caller, recipient) ==
    IF refund_constraints(S, recipient) # "Ok"
    THEN Ret(refund_constraints(S, recipient), S, NoOut)
    ELSE LET r == push_refund_handler(S, recipient)
         IN  IF r.err # "Ok" THEN r
             ELSE Ret("Ok",
                      [CloseTo(r.S, caller, PositionRent) EXCEPT
                          !.position[recipient] = ZeroPosition],
                      r.out)

close_launch_constraints(S) ==
    IF ~S.launch.refund_mode THEN "RefundModeNotActive"
    ELSE IF S.launch.total_shares # 0 THEN "LaunchNotEmpty"
    ELSE IF S.launch.total_sol # 0 THEN "LaunchNotEmpty"
    ELSE "Ok"

\* `close = caller`: the account is closed and its lamports go to the caller
close_launch(S, caller) ==
    IF close_launch_constraints(S) # "Ok" THEN Ret(close_launch_constraints(S), S, NoOut)
    ELSE Ret("Ok",
             [Transfer(S, Launch, caller, S.lamports[Launch]) EXCEPT
                 !.lifecycle = "Closed", !.launch = ZeroLaunch],
             [NoOut EXCEPT !.paid = S.lamports[Launch]])

(***************************************************************************)
(* instructions/claim_vesting.rs                                           *)
(***************************************************************************)
\* the position account is loaded before the constraints are checked
claim_vesting_constraints(S, user) ==
    IF ~S.position[user].exists THEN "AccountNotInitialized"
    ELSE IF ~S.launch.graduated THEN "NotGraduated"
    ELSE IF user # S.launch.creator THEN "Unauthorized"
    ELSE "Ok"

\* a variant that does not cap the elapsed time
total_vested_seed_uncapped(seed_shares, vesting_start, t) ==
    MulDiv(seed_shares, t - vesting_start, VESTING_DURATION_SECONDS)

\* the linear schedule: seed_shares * capped_elapsed / VESTING_DURATION_SECONDS
total_vested_seed(seed_shares, vesting_start, t) ==
    MulDiv(seed_shares, Min(t - vesting_start, VESTING_DURATION_SECONDS),
           VESTING_DURATION_SECONDS)

\* a variant that advances the counter of the position only
claim_vesting_update_keeps_launch_counter(S, user, claimable, t) ==
    [S EXCEPT
        !.position[user].locked_shares = @ - claimable,
        !.position[user].shares = @ + claimable,
        !.position[user].vested_shares_claimed = @ + claimable,
        !.position[user].last_updated_at = t]

\* a variant that credits the claimed shares and leaves them locked as well
claim_vesting_update_keeps_locked(S, user, claimable, t) ==
    [S EXCEPT
        !.position[user].shares = @ + claimable,
        !.position[user].vested_shares_claimed = @ + claimable,
        !.position[user].last_updated_at = t,
        !.launch.creator_claimed_shares = @ + claimable]

\* V7 STATE UPDATE and the launch-level tracking
claim_vesting_update(S, user, claimable, t) ==
    [S EXCEPT
        !.position[user].locked_shares = @ - claimable,
        !.position[user].shares = @ + claimable,
        !.position[user].vested_shares_claimed = @ + claimable,
        !.position[user].last_updated_at = t,
        !.launch.creator_claimed_shares = @ + claimable]

claim_vesting_handler(S, user, t) ==
    IF S.launch.operation_in_progress THEN Ret("InvalidCalculation", S, NoOut)
    ELSE
    LET S1 == [S EXCEPT !.launch.operation_in_progress = TRUE]
        S0 == [S1 EXCEPT !.launch.operation_in_progress = FALSE]
        vesting_start   == S1.launch.vesting_start
        seed_shares     == S1.launch.creator_seed_shares
        already_claimed == S1.launch.creator_claimed_shares
        remaining_seed  == SatSub(seed_shares, already_claimed)
        vested          == total_vested_seed(seed_shares, vesting_start, t)
        claimable       == vested - already_claimed
        out             == [NoOut EXCEPT !.shares = claimable]
    IN
    IF vesting_start = None THEN Ret("NotGraduated", S1, NoOut)
    ELSE IF t < vesting_start THEN Ret("VestingNotStarted", S1, NoOut)
    ELSE IF remaining_seed = 0 THEN Ret("NoSharesToClaim", S0, NoOut)
    ELSE IF vested < already_claimed THEN Ret("MathOverflow", S1, NoOut)
    ELSE IF claimable = 0 THEN Ret("NoSharesToClaim", S0, NoOut)
    ELSE IF ~(claimable <= S1.position[user].locked_shares)
         THEN Ret("InvalidCalculation", S1, out)
    ELSE Ret("Ok",
             [claim_vesting_update(S1, user, claimable, t) EXCEPT
                 !.launch.operation_in_progress = FALSE],
             out)

claim_vesting(S, user, t) ==
    IF claim_vesting_constraints(S, user) # "Ok"
    THEN Ret(claim_vesting_constraints(S, user), S, NoOut)
    ELSE claim_vesting_handler(S, user, t)

(***************************************************************************)
(* instructions/claim_tokens.rs                                            *)
(***************************************************************************)
\* The account passed as launch_token_account: the associated token account
\* of the launch, which force_graduate creates with the vault, or a token
\* account of somebody else, which exists.
OwnTokenAccount == Launch
OtherTokenAccount == "other"
TokenAccounts == {OwnTokenAccount, OtherTokenAccount}

\* the position and launch_token_account are loaded with the other
\* accounts before anything is created and before any constraint
claim_tokens_accounts(S, user, launch_token_account) ==
    IF ~S.position[user].exists THEN "AccountNotInitialized"
    ELSE IF launch_token_account = OwnTokenAccount /\ ~S.vault.exists
    THEN "AccountNotInitialized"
    ELSE "Ok"

\* the constraints, in the order of the struct: those of the launch, of the
\* position and of launch_token_account (associated_token::authority = launch)
claim_tokens_constraints(S, user, launch_token_account) ==
    IF ~S.launch.graduated THEN "NotGraduated"
    ELSE IF S.position[user].has_claimed_tokens THEN "AlreadyClaimed"
    ELSE IF launch_token_account # OwnTokenAccount THEN "ConstraintTokenOwner"
    ELSE "Ok"

\* a variant that shares out the total supply of 1_000_000_000 tokens
token_amount_of_total_supply(user_shares, total_shares) ==
    LET a == MulDivQR(user_shares, 1000000000, total_shares)
        b == MulDivQR(a[2], WB, total_shares)
    IN  << a[1] + (b[1] \div WB), b[1] % WB >>

\* a variant that rounds the amount up
token_amount_rounds_up(user_shares, total_shares) ==
    LET a == MulDivQR(user_shares, TOKENS_FOR_HOLDERS, total_shares)
        b == MulDivQR(a[2], WB, total_shares)
        up == IF b[2] > 0 THEN 1 ELSE 0
    IN  << a[1] + ((b[1] + up) \div WB), (b[1] + up) % WB >>

\* user_shares * (TOKENS_FOR_HOLDERS * 10^9) / total_shares, a wide value
token_amount(user_shares, total_shares) ==
    LET a == MulDivQR(user_shares, TOKENS_FOR_HOLDERS, total_shares)
        b == MulDivQR(a[2], WB, total_shares)
    IN  << a[1] + (b[1] \div WB), b[1] % WB >>

\* a variant that lets the creator claim at any time
claim_tokens_creator_check_skipped(S, user) == "Ok"

\* Creator: must complete vesting of seed shares before claiming
claim_tokens_creator_check(S, user) ==
    LET is_creator     == user = S.launch.creator
        remaining_seed == SatSub(S.launch.creator_seed_shares,
                                 S.position[user].vested_shares_claimed)
    IN  IF is_creator /\ remaining_seed # 0 THEN "VestingNotComplete" ELSE "Ok"

\* a variant that checks the marker and does not set it
claim_tokens_before_cpi_without_marker(S, user) ==
    IF S.launch.operation_in_progress THEN Ret("InvalidCalculation", S, NoOut)
    ELSE
    LET user_shares    == S.position[user].shares
        total_shares   == S.launch.total_shares_at_graduation
    IN
    IF claim_tokens_creator_check(S, user) # "Ok"
    THEN Ret(claim_tokens_creator_check(S, user), S, NoOut)
    ELSE IF ~(total_shares > 0) THEN Ret("InvalidCalculation", S, NoOut)
    ELSE IF token_amount(user_shares, total_shares) = WideZero
         THEN Ret("NoSharesToClaim", S, NoOut)
    ELSE Ret("Ok", S, [NoOut EXCEPT !.shares = user_shares,
                                    !.tokens = token_amount(user_shares, total_shares)])

\* the handler up to the token transfer
claim_tokens_before_cpi(S, user) ==
    IF S.launch.operation_in_progress THEN Ret("InvalidCalculation", S, NoOut)
    ELSE
    LET S1 == [S EXCEPT !.launch.operation_in_progress = TRUE]
        user_shares    == S1.position[user].shares
        total_shares   == S1.launch.total_shares_at_graduation
    IN
    IF claim_tokens_creator_check(S1, user) # "Ok"
    THEN Ret(claim_tokens_creator_check(S1, user), S1, NoOut)
    ELSE IF ~(total_shares > 0) THEN Ret("InvalidCalculation", S1, NoOut)
    ELSE IF token_amount(user_shares, total_shares) = WideZero
         THEN Ret("NoSharesToClaim", S1, NoOut)
    ELSE Ret("Ok", S1, [NoOut EXCEPT !.shares = user_shares,
                                     !.tokens = token_amount(user_shares, total_shares)])

\* the token transfer, the state update and the reset of the marker
claim_tokens_after_cpi(S, user, out) ==
    IF ~WideLeq(out.tokens, S.tokens[Launch]) THEN Ret("InsufficientFunds", S, out)
    ELSE Ret("Ok",
             [S EXCEPT
                 !.tokens[Launch] = WideSub(@, out.tokens),
                 !.tokens[user] = WideAdd(@, out.tokens),
                 !.position[user].has_claimed_tokens = TRUE,
                 !.position[user].shares = 0,
                 !.launch.operation_in_progress = FALSE],
             out)

claim_tokens_handler(S, user) ==
    LET r == claim_tokens_before_cpi(S, user)
    IN  IF r.err # "Ok" THEN r ELSE claim_tokens_after_cpi(r.S, user, r.out)

\* user_token_account (init_if_needed, payer = payer): the payer pays the
\* rent of the user's associated token account unless the account exists
\* already; anyone can have created it, so has_token_account is an input
claim_tokens_init_token_account(S, payer, has_token_account) ==
    IF has_token_account THEN Ret("Ok", S, NoOut)
    ELSE IF ~CanPay(S, payer, TokenAccountRent)
    THEN Ret("InsufficientLamports", S, NoOut)
    ELSE Ret("Ok", PayRent(S, payer, TokenAccountRent), NoOut)

\* `close = payer`: a successful claim closes the position account, and its
\* rent goes to the payer
claim_tokens_close(r, payer, user) ==
    IF r.err # "Ok" THEN r
    ELSE Ret("Ok",
             [CloseTo(r.S, payer, PositionRent) EXCEPT !.position[user] = ZeroPosition],
             r.out)

\* the instruction: the accounts are loaded, the token account created, the
\* constraints checked, the handler run and the position closed
claim_tokens(S, payer, user, has_token_account, launch_token_account) ==
    IF claim_tokens_accounts(S, user, launch_token_account) # "Ok"
    THEN Ret(claim_tokens_accounts(S, user, launch_token_account), S, NoOut)
    ELSE IF claim_tokens_init_token_account(S, payer, has_token_account).err # "Ok"
    THEN claim_tokens_init_token_account(S, payer, has_token_account)
    ELSE IF claim_tokens_constraints(S, user, launch_token_account) # "Ok"
    THEN Ret(claim_tokens_constraints(S, user, launch_token_account),
             claim_tokens_init_token_account(S, payer, has_token_account).S, NoOut)
    ELSE claim_tokens_close(
            claim_tokens_handler(
                claim_tokens_init_token_account(S, payer, has_token_account).S, user),
            payer, user)

(***************************************************************************)
(* instructions/claim_creator_fees.rs                                      *)
(***************************************************************************)
\* the creator_stats account that is passed, the one of `stats_of`, is
\* loaded with the other accounts before any constraint
claim_creator_fees_accounts(S, stats_of) ==
    IF ~S.creator_stats[stats_of].initialized THEN "AccountNotInitialized"
    ELSE "Ok"

\* the constraints of the launch, then the seeds of creator_stats ("creator_stats"
\* + the signer)
claim_creator_fees_constraints(S, caller, stats_of) ==
    IF caller # S.launch.creator THEN "NotCreator"
    ELSE IF ~S.launch.graduated THEN "NotGraduated"
    ELSE IF ~(S.launch.creator_accrued_fees > 0) THEN "NoFeesToClaim"
    ELSE IF stats_of # caller THEN "ConstraintSeeds"
    ELSE "Ok"

\* a variant that leaves the accrued fees on the launch
claim_creator_fees_update_keeps_accrued(S, caller, amount) ==
    [S EXCEPT !.creator_stats[caller].total_fees_earned = @ + amount]

\* the accrued fees are reset before the transfer and added to the creator's
\* lifetime earnings
claim_creator_fees_update(S, caller, amount) ==
    [S EXCEPT !.launch.creator_accrued_fees = 0,
              !.creator_stats[caller].total_fees_earned = @ + amount]

claim_creator_fees_handler(S, caller) ==
    IF S.launch.operation_in_progress THEN Ret("InvalidCalculation", S, NoOut)
    ELSE
    LET S1 == [S EXCEPT !.launch.operation_in_progress = TRUE]
        amount == S1.launch.creator_accrued_fees
        out == [NoOut EXCEPT !.paid = amount]
        S2 == claim_creator_fees_update(S1, caller, amount)
    IN
    \* the fees are checked a second time, after the marker is set
    IF ~(amount > 0) THEN Ret("NoFeesToClaim", S1, NoOut)
    ELSE IF ~CanPay(S2, Launch, amount) THEN Ret("MathOverflow", S2, out)
    ELSE Ret("Ok",
             [Transfer(S2, Launch, caller, amount) EXCEPT
                 !.launch.operation_in_progress = FALSE],
             out)

claim_creator_fees(S, caller, stats_of) ==
    IF claim_creator_fees_accounts(S, stats_of) # "Ok"
    THEN Ret(claim_creator_fees_accounts(S, stats_of), S, NoOut)
    ELSE IF claim_creator_fees_constraints(S, caller, stats_of) # "Ok"
    THEN Ret(claim_creator_fees_constraints(S, caller, stats_of), S, NoOut)
    ELSE claim_creator_fees_handler(S, caller)

(***************************************************************************)
(* instructions/poke.rs                                                    *)
(***************************************************************************)
\* the vault account is loaded before the constraint of the launch is
\* checked
poke_constraints(S) ==
    IF ~S.vault.exists THEN "AccountNotInitialized"
    ELSE IF ~S.launch.graduated THEN "NotGraduated"
    ELSE "Ok"

\* a variant that computes the compounded part from its own rate of 29%
yield_distribution_compound_by_rate(simulated_yield) ==
    [ caller     |-> MulDiv(simulated_yield, CALLER_BPS, TOTAL_BPS),
      creator    |-> MulDiv(simulated_yield, CREATOR_BPS, TOTAL_BPS),
      protocol   |-> MulDiv(simulated_yield, PROTOCOL_BPS, TOTAL_BPS),
      compounded |-> MulDiv(simulated_yield, 2900, TOTAL_BPS) ]

\* Calculate distribution amounts using basis points; the compound amount is
\* the remainder
yield_distribution(simulated_yield) ==
    [ caller     |-> MulDiv(simulated_yield, CALLER_BPS, TOTAL_BPS),
      creator    |-> MulDiv(simulated_yield, CREATOR_BPS, TOTAL_BPS),
      protocol   |-> MulDiv(simulated_yield, PROTOCOL_BPS, TOTAL_BPS),
      compounded |-> simulated_yield
                       - MulDiv(simulated_yield, CALLER_BPS, TOTAL_BPS)
                       - MulDiv(simulated_yield, CREATOR_BPS, TOTAL_BPS)
                       - MulDiv(simulated_yield, PROTOCOL_BPS, TOTAL_BPS) ]

\* state/vault.rs, Vault::calculate_yield_distribution: the same split in
\* percent
calculate_yield_distribution(yield_amount) ==
    [ creator    |-> MulDiv(yield_amount, 60, 100),
      protocol   |-> MulDiv(yield_amount, 10, 100),
      caller     |-> MulDiv(yield_amount, 1, 100),
      compounded |-> yield_amount - MulDiv(yield_amount, 60, 100)
                       - MulDiv(yield_amount, 10, 100)
                       - MulDiv(yield_amount, 1, 100) ]

\* the sanity check and the update of the vault's tracking stats
poke_distribute(S, simulated_yield, d, t) ==
    IF d.caller + d.creator + d.protocol + d.compounded # simulated_yield
    THEN Ret("InvalidCalculation", S, NoOut)
    ELSE Ret("Ok",
             [S EXCEPT
                 !.vault.total_yield_collected = @ + simulated_yield,
                 !.vault.total_creator_paid = @ + d.creator,
                 !.vault.total_protocol_paid = @ + d.protocol,
                 !.vault.total_compounded = @ + d.compounded,
                 !.vault.total_caller_paid = @ + d.caller,
                 !.vault.last_poke_at = t],
             [NoOut EXCEPT !.paid = d.caller])

poke_handler(S, t) ==
    poke_distribute(S, SIMULATED_YIELD, yield_distribution(SIMULATED_YIELD), t)

poke(S, t) ==
    IF poke_constraints(S) # "Ok" THEN Ret(poke_constraints(S), S, NoOut)
    ELSE poke_handler(S, t)

(***************************************************************************)
(* The program as a state machine.  An instruction runs on the accounts;   *)
(* what it returns is persisted when it returns Ok, and discarded with     *)
(* everything else the transaction did when it returns an error.           *)
(***************************************************************************)
NoPending == [op |-> "None"]

\* the inputs the model offers to each instruction
MinSharesOut == {1, HugeShares}
BuyAmountsNow == { a \in BuyAmounts : launch.total_sol + a <= MaxTotalSol }
SellShares(seller) ==
    { position[seller].shares, position[seller].shares \div 2,
      position[seller].shares + 1 }
SellMinSolOut(seller) == { 0, position[seller].sol_basis }
Signers == {Admin, Operator}
\* who sends a push-refund or pays for a claim-tokens on the position of
\* `owner`, and is paid the rent of the closed position: the owner or one
\* other wallet
Callers(owner) == {owner, Creator}
\* who creates launches: Creator, whose launch the model follows, and one
\* other wallet
Creators == {Creator, "alice"}
\* the accounts a claim-tokens on the position of `owner` is sent with: the
\* owner pays and has no token account yet, another wallet pays for an owner
\* who has one, or the token account passed for the launch is not its own
ClaimTokensAccounts(owner) ==
    { [payer |-> owner, has_token_account |-> FALSE,
       launch_token_account |-> OwnTokenAccount],
      [payer |-> Creator, has_token_account |-> TRUE,
       launch_token_account |-> OwnTokenAccount],
      [payer |-> owner, has_token_account |-> TRUE,
       launch_token_account |-> OtherTokenAccount] }
\* names, symbols and uris: empty, within the limit, one byte over it
RECURSIVE Repeat(_, _)
Repeat(c, n) ==
    IF n = 0 THEN ""
    ELSE IF n % 2 = 0 THEN Repeat(c \o c, n \div 2)
    ELSE c \o Repeat(c, n - 1)
Names == {"", "n", Repeat("n", 51)}
Symbols == {"", "s", Repeat("s", 11)}
Uris == {"", "u", Repeat("u", 201)}
\* arguments that pass the validation of the name, the symbol and the uri
ValidArgs(seed_lamports) == CreateLaunchArgs("n", "s", "u", seed_lamports)
\* every seed with good strings, and a seed of 100 with one string empty or
\* one byte over its limit
CreateArgs ==
    { ValidArgs(seed_lamports) : seed_lamports \in SeedAmounts }
    \cup { CreateLaunchArgs(name, "s", "u", 100) : name \in Names }
    \cup { CreateLaunchArgs("n", symbol, "u", 100) : symbol \in Symbols }
    \cup { CreateLaunchArgs("n", "s", uri, 100) : uri \in Uris }
\* the arguments offered to a creator: the launch the model follows is
\* tried with all of CreateArgs
CreateArgsOf(creator) ==
    IF creator = Creator THEN CreateArgs ELSE {ValidArgs(100)}
\* every combination of the strings and the seeds
AllCreateArgs ==
    { CreateLaunchArgs(name, symbol, uri, seed_lamports) :
        name \in Names, symbol \in Symbols, uri \in Uris,
        seed_lamports \in SeedAmounts }
\* the answers of the System Program and of the pool program: the pool
\* takes the liquidity whenever its call returns
Hosts == { Lenient, Host(TRUE, TRUE, TRUE), Host(FALSE, TRUE, FALSE) }
\* every answer, that of a pool program that moves nothing included
AnyHost == { Host(strict, raydium, token_1_mint) :
               strict \in BOOLEAN, raydium \in BOOLEAN, token_1_mint \in BOOLEAN }

InitAccounts ==
    \* the creator is new, or has created and graduated one launch before
    /\ \E returning \in BOOLEAN :
         /\ config = [sol_price_usd |-> 0, price_last_updated |-> 0,
                      paused |-> FALSE,
                      total_launches |-> IF returning THEN 1 ELSE 0]
         /\ creator_stats =
              IF returning
              THEN (Creator :> VerifiedCreatorStats(Creator)) @@ NoCreatorStats
              ELSE NoCreatorStats
    /\ lifecycle = "None"
    /\ launch = ZeroLaunch
    /\ position = NoPositions
    /\ vault = ZeroVault
    /\ lamports = InitialLamports
    /\ tokens = NoTokens
    /\ now = StartTime
    /\ trades = 0
    /\ deposited = [u \in Users |-> 0]
    /\ paid_out = [u \in Users |-> 0]
    /\ pending = NoPending

NoCalc == [amount |-> 0, out |-> NoOut]

Init == InitAccounts /\ calc = NoCalc

\* the accounts a failed instruction leaves: those before the transaction
Rollback == IF pending.op = "None" THEN Accounts ELSE pending.saved

\* a variant that keeps what a failed instruction wrote
Persist_keeps_failed(res) == res.S

Persist(res) == IF res.err = "Ok" THEN res.S ELSE Rollback

Store(S) ==
    /\ config' = S.config
    /\ lifecycle' = S.lifecycle
    /\ launch' = S.launch
    /\ position' = S.position
    /\ creator_stats' = S.creator_stats
    /\ vault' = S.vault
    /\ lamports' = S.lamports
    /\ tokens' = S.tokens

\* One instruction of the program, returning res.  The runtime refuses to
\* enter the program again while one of its instructions is suspended in a
\* call to the System Program or the Token Program.
Step(res) ==
    /\ pending.op = "None"
    /\ Store(Persist(res))
    /\ pending' = pending
    /\ calc' = calc

\* the price feed: no instruction of the program writes the price
UpdatePrice ==
    /\ pending.op = "None"
    /\ \E p \in Prices :
         /\ config.sol_price_usd # p
         /\ config' = [config EXCEPT !.sol_price_usd = p, !.price_last_updated = now]
    /\ UNCHANGED << lifecycle, launch, position, creator_stats, vault, lamports,
                    tokens, now, trades, deposited, paid_out, pending, calc >>

Tick ==
    /\ pending.op = "None"
    /\ \E d \in TickSteps :
         /\ now + d <= MaxTime
         /\ now' = now + d
    /\ UNCHANGED << config, lifecycle, launch, position, creator_stats, vault,
                    lamports, tokens, trades, deposited, paid_out, pending, calc >>

CreateLaunch ==
    /\ config.total_launches < MaxLaunches
    /\ \E creator \in Creators : \E args \in CreateArgsOf(creator) :
         Step(create_launch(Accounts, creator, args, now))
    /\ UNCHANGED << now, trades, deposited, paid_out >>

Buy ==
    /\ lifecycle = "Open"
    /\ trades < MaxTrades
    /\ \E buyer \in Users, sol_amount \in BuyAmountsNow, min_shares_out \in MinSharesOut :
         LET res == buy(Accounts, buyer, sol_amount, min_shares_out, now)
             ok  == res.err = "Ok"
         IN  /\ Step(res)
             /\ trades' = IF ok THEN trades + 1 ELSE trades
             /\ deposited' = IF ok THEN [deposited EXCEPT ![buyer] = @ + res.out.net_sol]
                             ELSE deposited
    /\ UNCHANGED << now, paid_out >>

Sell ==
    /\ lifecycle = "Open"
    /\ trades < MaxTrades
    /\ \E seller \in Users :
       \E shares_to_sell \in SellShares(seller), min_sol_out \in SellMinSolOut(seller) :
         LET res == sell(Accounts, seller, shares_to_sell, min_sol_out, now)
             ok  == res.err = "Ok"
         IN  /\ Step(res)
             /\ trades' = IF ok THEN trades + 1 ELSE trades
             /\ paid_out' = IF ok THEN [paid_out EXCEPT ![seller] = @ + res.out.paid]
                            ELSE paid_out
    /\ UNCHANGED << now, deposited >>

ForceGraduate ==
    /\ lifecycle = "Open"
    /\ \E authority \in Signers, host \in Hosts :
         Step(force_graduate(Accounts, authority, now, host))
    /\ UNCHANGED << now, trades, deposited, paid_out >>

Graduate ==
    /\ lifecycle = "Open"
    /\ \E caller \in Signers, host \in Hosts :
         Step(graduate(Accounts, caller, now, host))
    /\ UNCHANGED << now, trades, deposited, paid_out >>

EnableRefund ==
    /\ lifecycle = "Open"
    /\ \E caller \in Users : Step(enable_refund(Accounts, now))
    /\ UNCHANGED << now, trades, deposited, paid_out >>

ClaimRefund ==
    /\ lifecycle = "Open"
    /\ \E user \in Users : Step(claim_refund(Accounts, user))
    /\ UNCHANGED << now, trades, deposited, paid_out >>

PushRefund ==
    /\ lifecycle = "Open"
    /\ \E recipient \in Users : \E caller \in Callers(recipient) :
         Step(push_refund(Accounts, caller, recipient))
    /\ UNCHANGED << now, trades, deposited, paid_out >>

CloseLaunch ==
    /\ lifecycle = "Open"
    /\ \E caller \in Users : Step(close_launch(Accounts, caller))
    /\ UNCHANGED << now, trades, deposited, paid_out >>

ClaimVesting ==
    /\ lifecycle = "Open"
    /\ \E user \in Users : Step(claim_vesting(Accounts, user, now))
    /\ UNCHANGED << now, trades, deposited, paid_out >>

ClaimTokens ==
    /\ lifecycle = "Open"
    /\ \E user \in Users : \E a \in ClaimTokensAccounts(user) :
         Step(claim_tokens(Accounts, a.payer, user, a.has_token_account,
                           a.launch_token_account))
    /\ UNCHANGED << now, trades, deposited, paid_out >>

ClaimCreatorFees ==
    /\ lifecycle = "Open"
    /\ \E caller \in Users : \E stats_of \in {caller, Creator} :
         Step(claim_creator_fees(Accounts, caller, stats_of))
    /\ UNCHANGED << now, trades, deposited, paid_out >>

Poke ==
    /\ lifecycle = "Open"
    /\ vault.total_yield_collected < MaxPokes * SIMULATED_YIELD
    /\ \E caller \in Users : Step(poke(Accounts, now))
    /\ UNCHANGED << now, trades, deposited, paid_out >>

Next ==
    \/ UpdatePrice
    \/ Tick
    \/ CreateLaunch
    \/ Buy
    \/ Sell
    \/ ForceGraduate
    \/ Graduate
    \/ EnableRefund
    \/ ClaimRefund
    \/ PushRefund
    \/ CloseLaunch
    \/ ClaimVesting
    \/ ClaimTokens
    \/ ClaimCreatorFees
    \/ Poke

Spec == Init /\ [][Next]_vars

(***************************************************************************)
(* The trades of one launch: every interleaving of up to MaxDeepTrades     *)
(* successful buys and sales of the three users, from the accounts a       *)
(* successful create_launch leaves.                                        *)
(***************************************************************************)
\* the accounts after initialize and a price update, of a creator who is
\* new or has created and graduated one launch before
PricedAccounts(returning) ==
    [ config |-> [sol_price_usd |-> 1000000000, price_last_updated |-> StartTime,
                  paused |-> FALSE, total_launches |-> IF returning THEN 1 ELSE 0],
      lifecycle |-> "None", launch |-> ZeroLaunch,
      position |-> NoPositions,
      creator_stats |-> IF returning
                        THEN (Creator :> VerifiedCreatorStats(Creator)) @@ NoCreatorStats
                        ELSE NoCreatorStats,
      vault |-> ZeroVault,
      lamports |-> InitialLamports,
      tokens |-> NoTokens ]

CreatedAccounts(returning, seed_lamports) ==
    create_launch(PricedAccounts(returning), Creator, ValidArgs(seed_lamports), StartTime)

InitTrades ==
    /\ \E returning \in BOOLEAN, seed_lamports \in SeedAmounts :
         \E created \in { CreatedAccounts(returning, seed_lamports) } :
           /\ created.err = "Ok"
           /\ config = created.S.config
           /\ lifecycle = created.S.lifecycle
           /\ launch = created.S.launch
           /\ position = created.S.position
           /\ creator_stats = created.S.creator_stats
           /\ vault = created.S.vault
           /\ lamports = created.S.lamports
           /\ tokens = created.S.tokens
    /\ now = StartTime
    /\ trades = 0
    /\ deposited = [u \in Users |-> 0]
    /\ paid_out = [u \in Users |-> 0]
    /\ pending = NoPending
    /\ calc = NoCalc

BuyAmongTrades ==
    /\ trades < MaxDeepTrades
    /\ \E buyer \in Users, sol_amount \in BuyAmountsNow, min_shares_out \in MinSharesOut :
         LET res == buy(Accounts, buyer, sol_amount, min_shares_out, now)
             ok  == res.err = "Ok"
         IN  /\ Step(res)
             /\ trades' = IF ok THEN trades + 1 ELSE trades
             /\ deposited' = IF ok THEN [deposited EXCEPT ![buyer] = @ + res.out.net_sol]
                             ELSE deposited
    /\ UNCHANGED << now, paid_out >>

SellAmongTrades ==
    /\ trades < MaxDeepTrades
    /\ \E seller \in Users :
       \E shares_to_sell \in SellShares(seller), min_sol_out \in SellMinSolOut(seller) :
         LET res == sell(Accounts, seller, shares_to_sell, min_sol_out, now)
             ok  == res.err = "Ok"
         IN  /\ Step(res)
             /\ trades' = IF ok THEN trades + 1 ELSE trades
             /\ paid_out' = IF ok THEN [paid_out EXCEPT ![seller] = @ + res.out.paid]
                            ELSE paid_out
    /\ UNCHANGED << now, deposited >>

NextTrades == BuyAmongTrades \/ SellAmongTrades

SpecTrades == InitTrades /\ [][NextTrades]_vars

(***************************************************************************)
(* The same program with buy suspended in each of its two transfers and   *)
(* claim-tokens in its token transfer.  A handler works on copies of       *)
(* the accounts that Anchor deserialized for it, and the copies are        *)
(* written to the accounts when the handler has returned Ok: while the     *)
(* call is made, the accounts hold what they held before the instruction,  *)
(* and the accounts that `init_if_needed` created; the marker and every    *)
(* other write of the handler are in `pending.mem`.  An error aborts the   *)
(* whole transaction.                                                      *)
(***************************************************************************)
\* the handler's copies when the call returns: lamports and token balances
\* are read from the accounts themselves
InMemory == [pending.mem EXCEPT !.lamports = lamports, !.tokens = tokens]

CpiEnterBuy ==
    /\ lifecycle = "Open"
    /\ pending.op = "None"
    /\ trades < MaxTrades
    /\ buy_accounts(Accounts) = "Ok"
    /\ buy_constraints(Accounts) = "Ok"
    /\ \E buyer \in Users, sol_amount \in BuyAmountsNow :
         LET r == buy_before_cpi(buy_init_position(Accounts, buyer).S,
                                 buyer, sol_amount, 1, now)
         IN  /\ buy_init_position(Accounts, buyer).err = "Ok"
             /\ r.err = "Ok"
             /\ Store(buy_init_position(Accounts, buyer).S)
             /\ pending' = [op |-> "buy", who |-> buyer, payer |-> buyer,
                            out |-> r.out, mem |-> r.S, saved |-> Accounts]
    /\ UNCHANGED << now, trades, deposited, paid_out, calc >>

\* the first transfer returns: the protocol fee is in the fee wallet, and
\* the handler is suspended in its second transfer; a transfer the System
\* Program refuses aborts the transaction
CpiReturnBuyFee ==
    /\ pending.op = "buy"
    /\ LET res == buy_transfer_fee(InMemory, pending.who, pending.out)
       IN  IF res.err = "Ok"
           THEN /\ lamports' = res.S.lamports
                /\ pending' = [pending EXCEPT !.op = "buy_to_launch"]
                /\ UNCHANGED << config, lifecycle, launch, position, creator_stats,
                                vault, tokens >>
           ELSE /\ Store(pending.saved)
                /\ pending' = NoPending
    /\ UNCHANGED << now, trades, deposited, paid_out, calc >>

\* the second transfer returns: the handler resets the marker and ends, and
\* its accounts are written
CpiReturnBuy ==
    /\ pending.op = "buy_to_launch"
    /\ LET res == buy_transfer_to_launch(InMemory, pending.who, pending.out)
           ok  == res.err = "Ok"
       IN  /\ Store(Persist(res))
           /\ trades' = IF ok THEN trades + 1 ELSE trades
           /\ deposited' = IF ok THEN [deposited EXCEPT ![pending.who] = @ + res.out.net_sol]
                           ELSE deposited
    /\ pending' = NoPending
    /\ UNCHANGED << now, paid_out, calc >>

\* a claim-tokens is suspended in its token transfer: the amount is computed,
\* the marker is set in the handler's copy of the launch, and neither
\* has_claimed_tokens nor shares is written
CpiEnterClaimTokens ==
    /\ lifecycle = "Open"
    /\ pending.op = "None"
    \* the suspended claim is one the owner of the position pays for, the
    \* rent of a new token account included
    /\ \E user \in Users : \E payer \in {user}, has_token_account \in {FALSE} :
         /\ claim_tokens_accounts(Accounts, user, OwnTokenAccount) = "Ok"
         /\ claim_tokens_constraints(Accounts, user, OwnTokenAccount) = "Ok"
         /\ claim_tokens_init_token_account(Accounts, payer, has_token_account).err
               = "Ok"
         /\ LET r == claim_tokens_before_cpi(
                        claim_tokens_init_token_account(Accounts, payer,
                                                        has_token_account).S,
                        user)
            IN  /\ r.err = "Ok"
                /\ Store(claim_tokens_init_token_account(Accounts, payer,
                                                         has_token_account).S)
                /\ pending' = [op |-> "claim_tokens", who |-> user, payer |-> payer,
                               out |-> r.out, mem |-> r.S, saved |-> Accounts]
    /\ UNCHANGED << now, trades, deposited, paid_out, calc >>

\* the transfer returns: the tokens move, the position is marked and, the
\* instruction over, closed
CpiReturnClaimTokens ==
    /\ pending.op = "claim_tokens"
    /\ Store(Persist(claim_tokens_close(
                claim_tokens_after_cpi(InMemory, pending.who, pending.out),
                pending.payer, pending.who)))
    /\ pending' = NoPending
    /\ UNCHANGED << now, trades, deposited, paid_out, calc >>

NextReentrant ==
    \/ Next
    \/ CpiEnterBuy
    \/ CpiReturnBuyFee
    \/ CpiReturnBuy
    \/ CpiEnterClaimTokens
    \/ CpiReturnClaimTokens

SpecReentrant == Init /\ [][NextReentrant]_vars

(***************************************************************************)
(* The fee split of buy on its own: the creator is new or verified, and    *)
(* the split is computed for one gross amount after the other.             *)
(***************************************************************************)
InitFees == InitAccounts /\ calc = NoCalc

FeeSplit ==
    /\ calc.amount < MaxFeeAmount
    /\ calc' = [amount |-> calc.amount + 1,
                out |-> buy_fees(calc.amount + 1, get_creator_fee_bps(creator_stats[Creator]))]
    /\ UNCHANGED << config, lifecycle, launch, position, creator_stats, vault, lamports,
                    tokens, now, trades, deposited, paid_out, pending >>

NextFees == FeeSplit

SpecFees == InitFees /\ [][NextFees]_vars

(***************************************************************************)
(* The curve functions on their own: one call of buy_quote, buy_return,    *)
(* sell_return or integer_sqrt, its arguments drawn from the sets below.   *)
(***************************************************************************)
ToWide(n) == << n \div WB, n % WB >>

\* integer_sqrt is applied to every n up to MaxSqrtDense, to 2^k - 1 and
\* 2^k up to 2^MaxSqrtBit, and around the squares of SqrtRoots
SqrtRoots == {2, 3, 5, 1000, 46340, 46341, 65535, 65536, 1000000, 31622776,
              999999999, 1000000000, 1073741823}
SqrtArgs ==
    { ToWide(n) : n \in 0..MaxSqrtDense }
    \cup { ToWide(Pow2(k) - 1) : k \in 1..MaxSqrtBit }
    \cup { ToWide(Pow2(k)) : k \in 1..MaxSqrtBit }
    \cup { WideSub(WideMul(r, r), <<0, 1>>) : r \in SqrtRoots }
    \cup { WideMul(r, r) : r \in SqrtRoots }
    \cup { WideAdd(WideMul(r, r), <<0, r>>) : r \in SqrtRoots }
    \cup { WideAdd(WideAdd(WideMul(r, r), <<0, r>>), <<0, r>>) : r \in SqrtRoots }

\* integer_sqrt at the full width is applied to 2^k, 2^k + 1 and
\* 2^(k + 1) - 1 for every k from 30 to 127 (u128::MAX is 2^128 - 1), and
\* around the squares of SqrtRootsU128, the greatest of them 2^64 - 1
SqrtBitsU128 == 30..127
SqrtRootsU128 ==
    { IntToBig(1073741824), BigSub(BigPow2(32), BigOne), BigPow2(32),
      BigMul(IntToBig(1000000000), IntToBig(1000000000)),
      BigSub(BigPow2(63), BigOne), BigPow2(63),
      BigSub(BigPow2(64), <<2, 0, 0, 0, 0>>), BigSub(BigPow2(64), BigOne) }
SqrtArgsU128 ==
    { BigPow2(k) : k \in SqrtBitsU128 }
    \cup { BigAdd(BigPow2(k), BigOne) : k \in SqrtBitsU128 }
    \cup { BigSub(BigPow2(k + 1), BigOne) : k \in SqrtBitsU128 }
    \cup { BigSub(BigMul(r, r), BigOne) : r \in SqrtRootsU128 }
    \cup { BigMul(r, r) : r \in SqrtRootsU128 }
    \cup { BigAdd(BigMul(r, r), r) : r \in SqrtRootsU128 }
    \cup { BigAdd(BigAdd(BigMul(r, r), r), r) : r \in SqrtRootsU128 }

QuoteShares == {0, 1, 2, 3, 100, 101, 1599, 1600, 1601, 50000, 1000000, 1000001}
QuoteSupplies == {0, 1, 2, 1000, 1001, 15919, 1000000, 10000000, 10000001,
                  500000000, 1000000000}
ReturnAmounts == (0..MaxReturnDense)
                 \cup {99, 100, 396, 1000, 1000000, 1000000000}
ReturnSupplies == {0, 1, 15919, 1000000, 500000000, 1000000000}
SellReturnHeld == {0, 1, 2, 3, 7, 100, 15919, 1000000}
SellReturnSold(held) ==
    {0, 1, held \div 2, held, held + 1} \cup (IF held > 0 THEN {held - 1} ELSE {})
SellReturnBasis == {0, 1, 99, 100, 396, 1000, 390625, 1000000000}

CurveCall(fn, args) == [fn |-> fn, args |-> args, done |-> FALSE, err |-> "Ok", val |-> 0]

CurveCalls ==
    { CurveCall("integer_sqrt", <<n>>) : n \in SqrtArgs }
    \cup { CurveCall("integer_sqrt_u128", <<n>>) : n \in SqrtArgsU128 }
    \cup { CurveCall("buy_quote", <<n, sup>>) : n \in QuoteShares, sup \in QuoteSupplies }
    \cup { CurveCall("buy_return", <<a, sup>>) : a \in ReturnAmounts, sup \in ReturnSupplies }
    \cup { CurveCall("buy_quote_of_buy_return", <<a, sup>>) :
               a \in ReturnAmounts, sup \in ReturnSupplies }
    \cup UNION { { CurveCall("sell_return", <<k, held, b>>) :
                     k \in SellReturnSold(held), b \in SellReturnBasis } :
                 held \in SellReturnHeld }

InitCurve == InitAccounts /\ ~creator_stats[Creator].initialized /\ calc \in CurveCalls

CurveFrame ==
    UNCHANGED << config, lifecycle, launch, position, creator_stats, vault, lamports,
                 tokens, now, trades, deposited, paid_out, pending >>

ApplyIntegerSqrt ==
    /\ calc.fn = "integer_sqrt" /\ ~calc.done
    /\ calc' = [calc EXCEPT !.done = TRUE, !.val = integer_sqrt(calc.args[1])]
    /\ CurveFrame

ApplyIntegerSqrtU128 ==
    /\ calc.fn = "integer_sqrt_u128" /\ ~calc.done
    /\ \E r \in { integer_sqrt_u128(calc.args[1]) } :
         calc' = [calc EXCEPT !.done = TRUE,
                              !.err = IF r.overflow THEN "Overflow" ELSE "Ok",
                              !.val = r.val]
    /\ CurveFrame

ApplyBuyQuote ==
    /\ calc.fn = "buy_quote" /\ ~calc.done
    /\ calc' = [calc EXCEPT !.done = TRUE,
                            !.val = buy_quote(calc.args[1], calc.args[2])]
    /\ CurveFrame

ApplyBuyReturn ==
    /\ calc.fn = "buy_return" /\ ~calc.done
    /\ calc' = [calc EXCEPT !.done = TRUE,
                            !.val = buy_return(calc.args[1], calc.args[2])]
    /\ CurveFrame

\* what buy.rs mints for an amount, priced back by buy_quote at the same
\* supply
ApplyBuyQuoteOfBuyReturn ==
    /\ calc.fn = "buy_quote_of_buy_return" /\ ~calc.done
    /\ calc' = [calc EXCEPT !.done = TRUE,
                            !.val = buy_quote(buy_return(calc.args[1], calc.args[2]),
                                              calc.args[2])]
    /\ CurveFrame

ApplySellReturn ==
    /\ calc.fn = "sell_return" /\ ~calc.done
    /\ LET r == sell_return(calc.args[1], calc.args[2], calc.args[3])
       IN  calc' = [calc EXCEPT !.done = TRUE, !.err = r.err, !.val = r.val]
    /\ CurveFrame

NextCurve ==
    \/ ApplyIntegerSqrt
    \/ ApplyIntegerSqrtU128
    \/ ApplyBuyQuote
    \/ ApplyBuyReturn
    \/ ApplySellReturn
    \/ ApplyBuyQuoteOfBuyReturn

SpecCurve == InitCurve /\ [][NextCurve]_vars

(***************************************************************************)
(* The yield split on its own: a launch created with a seed of 100         *)
(* lamports and graduated at once is poked again and again, and the split  *)
(* is computed for one yield amount drawn from YieldAmounts.               *)
(***************************************************************************)
YieldAmounts ==
    (0..MaxYieldDense)
    \cup {9999, 10000, 10001, 999999, 1000000, 1000001, 123456789, 1000000000}

ZeroSplit == [caller |-> 0, creator |-> 0, protocol |-> 0, compounded |-> 0]

YieldCall(y) ==
    [fn |-> "yield_distribution", args |-> <<y>>, done |-> FALSE,
     val |-> ZeroSplit, vault_rs |-> ZeroSplit]

\* the accounts after initialize, a price update, create_launch(100) and
\* force_graduate at StartTime
GraduatedAccounts ==
    LET S0 == [ config |-> [sol_price_usd |-> 1000000000, price_last_updated |-> StartTime,
                            paused |-> FALSE, total_launches |-> 0],
                lifecycle |-> "None", launch |-> ZeroLaunch,
                position |-> NoPositions,
                creator_stats |-> NoCreatorStats,
                vault |-> ZeroVault,
                lamports |-> InitialLamports,
                tokens |-> NoTokens ]
        created == CHOOSE A \in { create_launch(S0, Creator, ValidArgs(100),
                                                StartTime).S } : TRUE
    IN  force_graduate(created, Admin, StartTime, Lenient).S

InitYield ==
    /\ \E G \in { GraduatedAccounts } :
          /\ config = G.config
          /\ lifecycle = G.lifecycle
          /\ launch = G.launch
          /\ position = G.position
          /\ creator_stats = G.creator_stats
          /\ vault = G.vault
          /\ lamports = G.lamports
          /\ tokens = G.tokens
    /\ now = StartTime
    /\ trades = 0
    /\ deposited = [u \in Users |-> 0]
    /\ paid_out = [u \in Users |-> 0]
    /\ pending = NoPending
    /\ calc \in { YieldCall(y) : y \in YieldAmounts }

ApplyYieldDistribution ==
    /\ calc.fn = "yield_distribution" /\ ~calc.done
    /\ calc' = [calc EXCEPT !.done = TRUE,
                            !.val = yield_distribution(calc.args[1]),
                            !.vault_rs = calculate_yield_distribution(calc.args[1])]
    /\ CurveFrame

PokeVault ==
    /\ lifecycle = "Open"
    /\ vault.total_yield_collected < MaxYieldPokes * SIMULATED_YIELD
    /\ \E caller \in Users : Step(poke(Accounts, now))
    /\ UNCHANGED << now, trades, deposited, paid_out >>

NextYield == ApplyYieldDistribution \/ PokeVault

SpecYield == InitYield /\ [][NextYield]_vars

(***************************************************************************)
(* Properties                                                              *)
(***************************************************************************)
RECURSIVE SumOver(_, _)
SumOver(f, set) ==
    IF set = {} THEN 0
    ELSE LET u == CHOOSE v \in set : TRUE
         IN  f[u] + SumOver(f, set \ {u})

Active == lifecycle = "Open" /\ ~launch.graduated /\ ~launch.refund_mode

\* C1: graduated and refund_mode are never both true, and no step of any
\* instruction sets either of them back to false once it is true.
C1_TerminalFlags ==
    /\ [](~(launch.graduated /\ launch.refund_mode))
    /\ [][ /\ launch.graduated => launch'.graduated
           /\ launch.refund_mode => launch'.refund_mode ]_vars

\* graduated, and claim_vesting and poke have acted since
C1_Witness ==
    /\ launch.graduated
    /\ launch.creator_claimed_shares > 0
    /\ vault.total_yield_collected > 0

\* C2: once graduated, every buy, sell and enable_refund is rejected; once in
\* refund mode, every graduate, force_graduate, buy and sell is rejected.
C2_TerminalRejects ==
    lifecycle = "Open" =>
    /\ launch.graduated =>
         /\ \A u \in Users, a \in BuyAmountsNow, m \in MinSharesOut :
              buy(Accounts, u, a, m, now).err # "Ok"
         /\ \A u \in Users : \A n \in SellShares(u), m \in SellMinSolOut(u) :
              sell(Accounts, u, n, m, now).err # "Ok"
         /\ enable_refund(Accounts, now).err # "Ok"
    /\ launch.refund_mode =>
         /\ \A c \in Signers, h \in AnyHost : graduate(Accounts, c, now, h).err # "Ok"
         /\ \A c \in Signers, h \in AnyHost :
              force_graduate(Accounts, c, now, h).err # "Ok"
         /\ \A u \in Users, a \in BuyAmountsNow, m \in MinSharesOut :
              buy(Accounts, u, a, m, now).err # "Ok"
         /\ \A u \in Users : \A n \in SellShares(u), m \in SellMinSolOut(u) :
              sell(Accounts, u, n, m, now).err # "Ok"

\* graduated with a holder who still has shares and funds: her buy and her
\* sale are rejected with AlreadyGraduated, enable_refund too though expired
C2_Witness ==
    /\ launch.graduated
    /\ position["alice"].shares > 0
    /\ is_launch_expired(launch, now)
    /\ buy(Accounts, "alice", 100, 1, now).err = "AlreadyGraduated"
    /\ sell(Accounts, "alice", position["alice"].shares, 0, now).err = "AlreadyGraduated"
    /\ enable_refund(Accounts, now).err = "AlreadyGraduated"

\* C3: while the launch is active, total_shares is the sum over all positions
\* of shares + locked_shares.
C3_SharesConserved ==
    Active =>
      launch.total_shares =
        SumOver([u \in Users |-> position[u].shares + position[u].locked_shares], Users)

\* active, after the creation, a buy and a sale
C3_Witness ==
    /\ Active
    /\ launch.creator_seed_shares > 0
    /\ \E u \in Users : deposited[u] > 0 /\ paid_out[u] > 0

\* C4: while the launch is active, total_sol is the sum of sol_basis over all
\* positions, the creator's included.
C4_SolConserved ==
    Active =>
      launch.total_sol = SumOver([u \in Users |-> position[u].sol_basis], Users)

\* the accounts after alice bought 400, bob bought 100 at the price her buy
\* left, alice sold half of her shares, bob sold all of his, and alice sold
\* the rest of hers
FiveTrades(A0) ==
    LET A1 == buy(A0, "alice", 400, 1, StartTime).S
        A2 == buy(A1, "bob", 100, 1, StartTime).S
        A3 == sell(A2, "alice", A2.position["alice"].shares \div 2, 0, StartTime).S
        A4 == sell(A3, "bob", A3.position["bob"].shares, 0, StartTime).S
    IN  sell(A4, "alice", A4.position["alice"].shares, 0, StartTime).S

\* C5: in every interleaving of buys and sales of all users, what the sales
\* have paid out to a user never exceeds what the buys of that user have
\* deposited net of fees, whatever the price the other trades have left.
C5_PayoutWithinDeposits ==
    \A u \in Users : paid_out[u] <= deposited[u]

\* alice bought, bob bought at the moved price, alice sold a half, bob sold
\* out, and alice sold the rest: each has been paid all of the net deposit
C5_Witness ==
    /\ trades = 5
    /\ Accounts = FiveTrades(CreatedAccounts(FALSE, 100).S)
    /\ deposited["alice"] > 0 /\ paid_out["alice"] = deposited["alice"]
    /\ deposited["bob"] > 0 /\ paid_out["bob"] = deposited["bob"]

\* every position of the launch is refunded: flagged by claim_refund or
\* closed by push_refund
AllRefunded == \A u \in Users : position[u].exists => position[u].has_claimed_refund

\* C6: in refund mode, once every position is refunded, total_shares and
\* total_sol are 0 and close_launch succeeds.
C6_RefundedThenClosable ==
    (lifecycle = "Open" /\ launch.refund_mode /\ AllRefunded) =>
      /\ launch.total_shares = 0
      /\ launch.total_sol = 0
      /\ \A c \in Users : close_launch(Accounts, c).err = "Ok"

\* the whole of a buy of `buyer`: the fee is with the fee wallet, the rest
\* with the launch, the buyer has paid both (and the rent of a new position),
\* the position and the launch are credited and the marker is reset
WholeBuy(res, buyer) ==
    /\ ~res.S.launch.operation_in_progress
    /\ res.S.lamports[FeeWallet] = lamports[FeeWallet] + res.out.protocol_fee
    /\ res.S.lamports[Launch] = lamports[Launch] + res.out.net_sol + res.out.creator_fee
    /\ res.S.lamports[buyer] =
          lamports[buyer] - res.out.protocol_fee - res.out.net_sol - res.out.creator_fee
            - (IF position[buyer].exists THEN 0 ELSE PositionRent)
    /\ res.S.position[buyer].exists
    /\ res.S.position[buyer].shares = position[buyer].shares + res.out.shares
    /\ res.S.position[buyer].sol_basis = position[buyer].sol_basis + res.out.net_sol
    /\ res.S.launch.total_shares = launch.total_shares + res.out.shares
    /\ res.S.launch.total_sol = launch.total_sol + res.out.net_sol
    /\ res.S.launch.creator_accrued_fees = launch.creator_accrued_fees + res.out.creator_fee

\* the whole of a sale: the launch has paid, the seller is paid, and the
\* position and the launch are debited
WholeSell(res, seller, shares_to_sell) ==
    /\ ~res.S.launch.operation_in_progress
    /\ res.S.lamports[Launch] = lamports[Launch] - res.out.paid
    /\ res.S.lamports[seller] = lamports[seller] + res.out.paid
    /\ res.S.position[seller].shares = position[seller].shares - shares_to_sell
    /\ res.S.position[seller].sol_basis = position[seller].sol_basis - res.out.paid
    /\ res.S.launch.total_shares = launch.total_shares - shares_to_sell
    /\ res.S.launch.total_sol = launch.total_sol - res.out.paid

\* the whole of a claim-vesting: the shares are unlocked, credited and
\* counted on the position and on the launch
WholeClaimVesting(res, user) ==
    /\ ~res.S.launch.operation_in_progress
    /\ res.out.shares > 0
    /\ res.S.position[user].shares = position[user].shares + res.out.shares
    /\ res.S.position[user].locked_shares = position[user].locked_shares - res.out.shares
    /\ res.S.position[user].vested_shares_claimed
          = position[user].vested_shares_claimed + res.out.shares
    /\ res.S.launch.creator_claimed_shares
          = launch.creator_claimed_shares + res.out.shares
    /\ res.S.lamports = lamports
    /\ res.S.tokens = tokens

\* the whole of a claim-tokens: the tokens have left the launch and reached
\* the user, the position is closed, and the payer has paid the rent of a
\* new token account and has the rent of the position
WholeClaimTokens(res, payer, user, has_token_account) ==
    /\ ~res.S.launch.operation_in_progress
    /\ res.out.tokens # WideZero
    /\ res.S.tokens[Launch] = WideSub(tokens[Launch], res.out.tokens)
    /\ res.S.tokens[user] = WideAdd(tokens[user], res.out.tokens)
    /\ ~res.S.position[user].exists
    /\ res.S.lamports[payer] =
          lamports[payer] + PositionRent
            - (IF has_token_account THEN 0 ELSE TokenAccountRent)

\* the whole of a claim-creator-fees: the fees have left the launch and
\* reached the creator, and they are off the launch and in the lifetime
\* earnings
WholeClaimCreatorFees(res, caller) ==
    /\ ~res.S.launch.operation_in_progress
    /\ res.out.paid = launch.creator_accrued_fees
    /\ res.out.paid > 0
    /\ res.S.lamports[Launch] = lamports[Launch] - res.out.paid
    /\ res.S.lamports[caller] = lamports[caller] + res.out.paid
    /\ res.S.launch.creator_accrued_fees = 0
    /\ res.S.creator_stats[caller].total_fees_earned
          = creator_stats[caller].total_fees_earned + res.out.paid

\* the whole of a claim-refund: the basis has left the launch and reached
\* the user, the position is flagged and the launch is debited
WholeClaimRefund(res, user) ==
    /\ res.out.paid = position[user].sol_basis
    /\ res.S.lamports[Launch] = lamports[Launch] - res.out.paid
    /\ res.S.lamports[user] = lamports[user] + res.out.paid
    /\ res.S.position[user].has_claimed_refund
    /\ res.S.launch.total_sol = SatSub(launch.total_sol, res.out.paid)
    /\ res.out.paid > 0 =>
          res.S.launch.total_shares = SatSub(launch.total_shares, position[user].shares)

\* the whole of a push-refund: the basis has left the launch and reached
\* the recipient, the launch is debited, the position is closed and its
\* rent is with the caller
WholePushRefund(res, caller, recipient) ==
    /\ res.out.paid = position[recipient].sol_basis
    /\ res.S.lamports[Launch] = lamports[Launch] - res.out.paid
    /\ res.S.lamports[recipient] =
          lamports[recipient] + res.out.paid
            + (IF caller = recipient THEN PositionRent ELSE 0)
    /\ res.S.lamports[caller] =
          lamports[caller] + PositionRent
            + (IF caller = recipient THEN res.out.paid ELSE 0)
    /\ ~res.S.position[recipient].exists
    /\ res.S.launch.total_sol = SatSub(launch.total_sol, res.out.paid)
    /\ res.out.paid > 0 =>
          res.S.launch.total_shares =
            SatSub(launch.total_shares,
                   position[recipient].shares + position[recipient].locked_shares)

\* the whole of a force-graduate: the deposits have left the launch for the
\* pool, the supply is minted and the pool has taken what it takes, the
\* vault exists, and the launch and the creator's record are updated
WholeForceGraduate(res, host) ==
    /\ ~res.S.launch.operation_in_progress
    /\ launch.total_sol > 0
    /\ res.S.lamports[Launch] = lamports[Launch] - launch.total_sol
    /\ res.S.lamports["pool"] = lamports["pool"] + launch.total_sol
    /\ res.S.tokens[Launch] =
          IF host.raydium
          THEN WideSub(WideAdd(tokens[Launch], TotalSupplyUnits), TokensForLpUnits)
          ELSE WideAdd(tokens[Launch], TotalSupplyUnits)
    /\ res.S.vault.exists
    /\ res.S.launch.graduated
    /\ res.S.launch.vesting_start = now
    /\ res.S.launch.total_shares_at_graduation = launch.total_shares
    /\ res.S.creator_stats[launch.creator].graduated_count
          = creator_stats[launch.creator].graduated_count + 1

\* an instruction that returned res has left nothing (what is persisted of
\* a failed instruction is what was there before) or has left the whole
AllOrNothing(res, whole) ==
    IF res.err # "Ok" THEN Persist(res) = Accounts
    ELSE Persist(res) = res.S /\ whole

C9_ProtocolFeeIsRemainder ==
    lifecycle = "Open" =>
      \A u \in Users, a \in BuyAmountsNow, m \in MinSharesOut :
        LET res == buy(Accounts, u, a, m, now)
        IN  res.err = "Ok" =>
              /\ res.out.protocol_fee = res.out.total_fee - res.out.creator_fee
              /\ res.out.protocol_fee + res.out.creator_fee + res.out.net_sol = a

\* C10: for every amount and both fee tiers, creator_fee + protocol_fee is at
\* most floor(amount * TOTAL_FEE_BPS / 10000).
C10_FeePartsWithinTotal ==
    calc.amount > 0 =>
      calc.out.creator_fee + calc.out.protocol_fee
        <= (calc.amount * TOTAL_FEE_BPS) \div BPS_DENOMINATOR

\* the split of a verified creator's buy where flooring loses a lamport
C10_Witness ==
    /\ calc.amount > BPS_DENOMINATOR
    /\ is_verified(creator_stats[Creator])
    /\ calc.out.creator_fee > 0
    /\ calc.out.creator_fee + calc.out.protocol_fee
         < (calc.amount * TOTAL_FEE_BPS) \div BPS_DENOMINATOR

\* C11: the creator fee of a buy is fixed by the creator's graduation count
\* at the time of the buy alone: every successful buy charges and accrues
\* floor(amount * 50 / 10000) when graduated_count > 0 and
\* floor(amount * 30 / 10000) otherwise, and a graduated launch leaves its
\* creator in the 50 bps tier.
C11_FeeTierByGraduationCount ==
    /\ \A u \in Users, a \in BuyAmountsNow, m \in MinSharesOut :
          LET res == buy(Accounts, u, a, m, now)
              bps == IF creator_stats[Creator].graduated_count > 0 THEN 50 ELSE 30
          IN  lifecycle = "Open" /\ res.err = "Ok" =>
                /\ res.out.creator_fee = (a * bps) \div 10000
                /\ res.S.launch.creator_accrued_fees =
                       launch.creator_accrued_fees + (a * bps) \div 10000
                /\ res.S.creator_stats = creator_stats
    /\ launch.graduated => get_creator_fee_bps(creator_stats[Creator]) = 50

\* a creator who graduated before has a launch on which a buy of 400 accrued
\* the creator fee at 50 bps
C11_Witness ==
    /\ creator_stats[Creator].graduated_count > 0
    /\ Active
    /\ launch.creator_accrued_fees = 2

\* C12: sells carry no fee: every successful sell pays the seller exactly
\* floor(shares_to_sell * basis / shares) out of the launch account, and
\* leaves the accrued creator and protocol fees and the balance of the
\* protocol fee wallet as they were.
C12_SellsCarryNoFee ==
    \A u \in Users :
      \A n \in SellShares(u), mo \in SellMinSolOut(u) :
        LET res  == sell(Accounts, u, n, mo, now)
            paid == (n * position[u].sol_basis) \div position[u].shares
        IN  lifecycle = "Open" /\ res.err = "Ok" =>
              /\ res.out.paid = paid
              /\ res.S.lamports[u] = lamports[u] + paid
              /\ res.S.lamports[Launch] = lamports[Launch] - paid
              /\ res.S.lamports[FeeWallet] = lamports[FeeWallet]
              /\ res.S.launch.creator_accrued_fees = launch.creator_accrued_fees
              /\ res.S.launch.protocol_accrued_fees = launch.protocol_accrued_fees

\* a holder sold a position of basis 396 whole while buy fees stood accrued
C12_Witness ==
    \E u \in Users :
      /\ paid_out[u] = 396
      /\ position[u].shares = 0
      /\ launch.creator_accrued_fees + launch.protocol_accrued_fees >= 3

\* C13: buy_quote is strictly increasing in both arguments: a quote of a
\* shares at supply s is below the quote of every larger share count b at s,
\* and, for a > 0, below the quote of a shares at every larger supply.
C13_QuoteStrictlyIncreasing ==
    calc.fn = "buy_quote" /\ calc.done =>
      /\ \A b \in QuoteShares :
           calc.args[1] < b => calc.val < buy_quote(b, calc.args[2])
      /\ \A s2 \in QuoteSupplies :
           calc.args[1] > 0 /\ calc.args[2] < s2 =>
             calc.val < buy_quote(calc.args[1], s2)

\* C14: no gain extraction: when n > 0 shares were bought at supply s1 for
\* C0 = buy_quote(n, s1) and the supply is s2 > s1, buying n shares costs
\* C1 = buy_quote(n, s2) > C0, and selling the n shares of basis C0 refunds
\* exactly C0, which is below C1 (n = 100, s1 = 0, s2 = 1000 among them).
C14_NoGainExtraction ==
    calc.fn = "buy_quote" /\ calc.done /\ calc.args[1] > 0 =>
      \A s2 \in QuoteSupplies :
        calc.args[2] < s2 =>
          LET n      == calc.args[1]
              C0     == calc.val
              C1     == buy_quote(n, s2)
              refund == sell_return(n, n, C0)
          IN  /\ C1 > C0
              /\ refund.err = "Ok"
              /\ refund.val = C0
              /\ refund.val < C1

\* C15: the refund is proportional to the basis and rounded down: for held
\* shares S > 0, basis B and 0 < k <= S, sell_return(k, S, B) is the r with
\* r * S <= k * B < (r + 1) * S; selling 50 of 100 shares refunds half the
\* basis.
C15_RefundIsFloorOfProportion ==
    calc.fn = "sell_return" /\ calc.done
      /\ 0 < calc.args[1] /\ calc.args[1] <= calc.args[2] =>
        LET k == calc.args[1]
            S == calc.args[2]
            B == calc.args[3]
            r == calc.val
        IN  /\ calc.err = "Ok"
            /\ WideLeq(WideMul(r, S), WideMul(k, B))
            /\ ~WideLeq(WideMul(r + 1, S), WideMul(k, B))
            /\ (k = 50 /\ S = 100 /\ B = 1000000000) => r = 500000000

\* 50 of 100 shares with basis 1_000_000_000 were sold for 500_000_000
C15_Witness ==
    /\ calc.fn = "sell_return" /\ calc.done
    /\ calc.args = <<50, 100, 1000000000>>
    /\ calc.val = 500000000

\* C16: selling all shares of a position refunds exactly its basis:
\* sell_return(n, n, C) = C for the n > 0 shares and the basis C of every
\* position, and a holder who sells every share, right after a buy or
\* later, is paid the basis the buys credited and is left with 0 shares and
\* basis 0.
C16_SellAllRefundsBasis ==
    \A u \in Users :
      LET n   == position[u].shares
          C   == position[u].sol_basis
          res == sell(Accounts, u, n, C, now)
      IN  lifecycle = "Open" /\ n > 0 =>
            /\ sell_return(n, n, C) = [err |-> "Ok", val |-> C]
            /\ Active /\ ~launch.operation_in_progress =>
                 /\ res.err = "Ok"
                 /\ res.out.paid = C
                 /\ res.S.lamports[u] = lamports[u] + C
                 /\ res.S.position[u].shares = 0
                 /\ res.S.position[u].sol_basis = 0

\* a holder bought for 400 (basis 396) and sold every share at once
C16_Witness ==
    \E u \in Holders :
      /\ deposited[u] = 396
      /\ paid_out[u] = 396
      /\ position[u].shares = 0
      /\ position[u].sol_basis = 0

\* C17: a sale from a position of zero shares, or of more shares than the
\* position holds, always fails, with nothing computed as refund and no
\* lamports moved: the sell instruction answers InsufficientShares (once its
\* account constraints hold and at least one share is asked for), and
\* sell_return answers InvalidCalculation for shares_to_sell > 0 of
\* user_shares = 0.
C17_OversellRejected ==
    \A u \in Users :
      \A n \in {0, 1, position[u].shares + 1, 2 * position[u].shares + 1},
         mo \in SellMinSolOut(u) :
        LET res == sell(Accounts, u, n, mo, now)
        IN  lifecycle = "Open" /\ (position[u].shares = 0 \/ n > position[u].shares) =>
              /\ res.err # "Ok"
              /\ res.out.paid = 0
              /\ res.S.lamports = lamports
              /\ res.S.position = position
              /\ (sell_constraints(Accounts, u) = "Ok" /\ n > 0) =>
                   res.err = "InsufficientShares"
              /\ n > 0 =>
                   sell_return(n, 0, position[u].sol_basis) =
                     [err |-> "InvalidCalculation", val |-> 0]

\* on an active launch one user holds shares and another has a position of
\* zero shares, so that both kinds of sale are asked for and refused
C17_Witness ==
    /\ Active
    /\ \E u \in Users :
         /\ position[u].exists /\ position[u].shares = 0
         /\ sell(Accounts, u, 1, 0, now).err = "InsufficientShares"
    /\ \E u \in Users :
         /\ position[u].shares > 0
         /\ sell(Accounts, u, position[u].shares + 1, 0, now).err = "InsufficientShares"

\* C18: a successful buy credits at least min_shares_out shares and a
\* successful sell pays at least min_sol_out lamports; a buy or a sell whose
\* arguments are valid and whose computed result is below the minimum fails
\* with SlippageExceeded.
C18_SlippageGuards ==
    (Active /\ ~launch.operation_in_progress) =>
      /\ \A u \in Users, a \in BuyAmountsNow :
           LET net    == a - (a * 100) \div 10000
               shares == buy_return(net, launch.total_shares)
           IN  \A m \in MinSharesOut \cup {shares, shares + 1} :
                 LET res == buy(Accounts, u, a, m, now)
                 IN  /\ res.err = "Ok" =>
                          /\ res.out.shares >= m
                          /\ res.S.position[u].shares = position[u].shares + res.out.shares
                     /\ (a > 0 /\ m > 0 /\ shares < m) => res.err = "SlippageExceeded"
      /\ \A u \in Users :
           \A n \in SellShares(u) :
             LET refund == (n * position[u].sol_basis) \div position[u].shares
             IN  \A mo \in SellMinSolOut(u) \cup
                           (IF 0 < n /\ n <= position[u].shares
                            THEN {refund, refund + 1} ELSE {}) :
                   LET res == sell(Accounts, u, n, mo, now)
                   IN  /\ res.err = "Ok" =>
                            /\ res.out.paid >= mo
                            /\ res.S.lamports[u] = lamports[u] + res.out.paid
                       /\ ( /\ position[u].exists
                            /\ 0 < n /\ n <= position[u].shares
                            /\ mo <= position[u].sol_basis
                            /\ refund < mo ) => res.err = "SlippageExceeded"

\* a holder of shares for whom a buy with an unreachable minimum and the
\* sale of half the shares for the whole basis both exceed the slippage,
\* while the same buy with a minimum of one share succeeds
C18_Witness ==
    /\ Active
    /\ 100 \in BuyAmountsNow
    /\ \E u \in Holders :
         /\ position[u].shares > 1
         /\ buy(Accounts, u, 100, HugeShares, now).err = "SlippageExceeded"
         /\ buy(Accounts, u, 100, 1, now).err = "Ok"
         /\ sell(Accounts, u, position[u].shares \div 2, position[u].sol_basis, now).err
              = "SlippageExceeded"

(***************************************************************************)
(* C19: integer_sqrt(n) ends for every n and returns the floor of the      *)
(* square root of n, the r with r * r <= n < (r + 1) * (r + 1), and no     *)
(* step of it overflows a u128; the roots of 0, 1, 4, 9, 15, 16 and 10^12  *)
(* are 0, 1, 2, 3, 3, 4 and 10^6.                                          *)
(* Below 2^60 the function is computed twice, on wide values and on the    *)
(* limbs of a u128, and the two results agree; from 2^30 up to u128::MAX   *)
(* it is computed on the limbs, and r * r and (r + 1) * (r + 1) are formed *)
(* by multiplication.                                                      *)
(***************************************************************************)
C19_IntegerSqrtIsFloor ==
    /\ calc.fn = "integer_sqrt" /\ calc.done =>
          LET n == calc.args[1]
              r == calc.val
          IN  /\ r >= 0
              /\ WideLeq(WideMul(r, r), n)
              /\ ~WideLeq(WideMul(r + 1, r + 1), n)
              /\ n = <<0, 0>> => r = 0
              /\ n = <<0, 1>> => r = 1
              /\ n = <<0, 4>> => r = 2
              /\ n = <<0, 9>> => r = 3
              /\ n = <<0, 15>> => r = 3
              /\ n = <<0, 16>> => r = 4
              /\ n = <<1000, 0>> => r = 1000000
              /\ integer_sqrt_u128(WideToBig(n))
                    = [val |-> IntToBig(r), overflow |-> FALSE]
    /\ calc.fn = "integer_sqrt_u128" /\ calc.done =>
          LET n == calc.args[1]
              r == calc.val
          IN  /\ calc.err = "Ok"
              /\ FitsU128(r)
              /\ BigLeq(BigMul(r, r), n)
              /\ ~BigLeq(BigMul(BigAdd(r, BigOne), BigAdd(r, BigOne)), n)

\* the root of u128::MAX, 2^64 - 1, was computed without an overflow
C19_Witness ==
    /\ calc.fn = "integer_sqrt_u128" /\ calc.done
    /\ calc.args[1] = BigSub(BigPow2(128), BigOne)
    /\ calc.err = "Ok"
    /\ calc.val = BigSub(BigPow2(64), BigOne)

\* C20: buy_return(amount, supply) inverts the cost curve: for amount > 0 it
\* is r with (r + supply)^2 <= 2 * amount * CURVE_SCALE / CURVE_SLOPE
\* + supply^2 < (r + supply + 1)^2, where CURVE_SCALE / CURVE_SLOPE is
\* 1_280_000 exactly; it is 0 for amount 0, and buy_quote(0, supply) is 0.
C20_BuyReturnInvertsCurve ==
    /\ calc.fn = "buy_return" /\ calc.done =>
         LET a == calc.args[1]
             s == calc.args[2]
             r == calc.val
             T == WideAdd(WideMul(2 * a, 1280000), WideMul(s, s))
         IN  /\ a = 0 => r = 0
             /\ a > 0 =>
                  /\ r >= 0
                  /\ WideLeq(WideMul(r + s, r + s), T)
                  /\ ~WideLeq(WideMul(r + s + 1, r + s + 1), T)
    /\ (calc.fn = "buy_quote" /\ calc.done /\ calc.args[1] = 0) => calc.val = 0

\* the shares of the seed deposit of the model, 99 lamports at supply 0
C20_Witness ==
    /\ calc.fn = "buy_return" /\ calc.done
    /\ calc.args = <<99, 0>>
    /\ calc.val = 15919

(***************************************************************************)
(* C21: create-launch fails closed on the price.  In every state without a *)
(* launch, whenever the cached price of GlobalConfig is zero or its last   *)
(* update is more than 300 seconds before the call, create-launch is       *)
(* refused with PriceOracleUnavailable, whatever the seed; and an existing *)
(* launch was never created from such a price: at its creation time the    *)
(* price was positive and at most 300 seconds old.                         *)
(* The code refuses a zero price only: usd_to_lamports does not look at    *)
(* price_last_updated and nothing calls is_price_stale, so a launch is     *)
(* created from a price of any age.                                        *)
(***************************************************************************)
C21_CreateFailsClosedOnPrice ==
    /\ lifecycle = "None" =>
         \A seed_lamports \in SeedAmounts :
            (config.sol_price_usd = 0 \/ is_price_stale(config, now)) =>
                create_launch(Accounts, Creator, ValidArgs(seed_lamports), now).err
                    = "PriceOracleUnavailable"
    /\ lifecycle = "Open" =>
         /\ config.sol_price_usd # 0
         /\ ~is_price_stale(config, launch.created_at)

(***************************************************************************)
(* C22: create-launch mints the seed shares against zero supply and locks  *)
(* all of them.  For every seed, a successful create with net deposit      *)
(* d = seed - floor(seed * 100 / 10000) leaves total_shares =              *)
(* creator_seed_shares = the creator's locked_shares = buy_return(d, 0),   *)
(* the creator's position with shares = 0, total_sol = creator_seed_sol =  *)
(* d, and the launch active (not graduated, not in refund mode).           *)
(***************************************************************************)
C22_SeedSharesMintedAndLocked ==
    lifecycle = "None" =>
        \A args \in AllCreateArgs :
            LET res == create_launch(Accounts, Creator, args, now)
                seed_lamports == args.seed_lamports
                d   == seed_lamports - ((seed_lamports * 100) \div 10000)
            IN  res.err = "Ok" =>
                    /\ res.S.lifecycle = "Open"
                    /\ res.S.launch.total_shares = buy_return(d, 0)
                    /\ res.S.launch.creator_seed_shares = buy_return(d, 0)
                    /\ res.S.position[Creator].exists
                    /\ res.S.position[Creator].locked_shares = buy_return(d, 0)
                    /\ res.S.position[Creator].shares = 0
                    /\ res.S.launch.total_sol = d
                    /\ res.S.launch.creator_seed_sol = d
                    /\ ~res.S.launch.graduated
                    /\ ~res.S.launch.refund_mode

\* a launch just created from a seed of 100 lamports: 99 lamports net mint
\* 15919 shares, all of them locked
C22_Witness ==
    /\ lifecycle = "Open"
    /\ launch.created_at = now
    /\ launch.total_sol = 99
    /\ launch.total_shares = 15919
    /\ launch.creator_seed_shares = 15919
    /\ position[Creator].locked_shares = 15919
    /\ position[Creator].shares = 0
    /\ ~launch.graduated /\ ~launch.refund_mode

(***************************************************************************)
(* C23: graduation snapshots the share supply and starts vesting.  A       *)
(* successful force-graduate of an active launch by the admin leaves       *)
(* graduated = true, total_shares_at_graduation = the total_shares of the  *)
(* launch at the call (which the call does not change), and vesting_start  *)
(* = graduated_at = the time of the call; and no step of a graduated       *)
(* launch changes the snapshot, the vesting start or the graduated flag.   *)
(***************************************************************************)
C23_GraduationSnapshot ==
    /\ [](lifecycle = "Open" /\ Active =>
            \A h \in AnyHost :
            LET res == force_graduate(Accounts, Admin, now, h)
            IN  res.err = "Ok" =>
                    /\ res.S.launch.graduated
                    /\ res.S.launch.total_shares_at_graduation = launch.total_shares
                    /\ res.S.launch.total_shares = launch.total_shares
                    /\ res.S.launch.vesting_start = now
                    /\ res.S.launch.graduated_at = now)
    /\ [][lifecycle = "Open" /\ launch.graduated =>
            /\ lifecycle' = "Open"
            /\ launch'.graduated
            /\ launch'.total_shares_at_graduation = launch.total_shares_at_graduation
            /\ launch'.vesting_start = launch.vesting_start
            /\ launch'.graduated_at = launch.graduated_at]_vars

\* a graduated launch whose creator has vested and a holder has claimed
\* tokens since; the snapshot still is the supply of the graduation
C23_Witness ==
    /\ lifecycle = "Open"
    /\ launch.graduated
    /\ launch.vesting_start = launch.graduated_at
    /\ launch.vesting_start < now
    /\ launch.total_shares_at_graduation = launch.total_shares
    /\ launch.total_shares_at_graduation > launch.creator_seed_shares
    /\ launch.creator_claimed_shares > 0
    /\ \E u \in Holders : tokens[u] # WideZero

(***************************************************************************)
(* C24: enable-refund succeeds only on an active launch and only from 7    *)
(* days after its creation.  For the clock of the state and for the clock  *)
(* values around created_at + 604800 that are still to come: on an active  *)
(* launch the call fails with LaunchNotExpired before created_at + 604800  *)
(* and succeeds from that second on; on a graduated launch or one in       *)
(* refund mode it fails; whenever it succeeds it sets refund_mode and      *)
(* records the time of the call in refund_enabled_at.                      *)
(***************************************************************************)
C24_EnableRefundAfterDuration ==
    lifecycle = "Open" =>
        \A t \in {now} \cup
                 { x \in { launch.created_at + 604800 - 1,
                           launch.created_at + 604800,
                           launch.created_at + 604800 + 1 } : x >= now } :
            LET res == enable_refund(Accounts, t)
            IN  /\ res.err = "Ok" =>
                    /\ Active
                    /\ t >= launch.created_at + 604800
                    /\ res.S.launch.refund_mode
                    /\ res.S.launch.refund_enabled_at = t
                    /\ ~res.S.launch.graduated
                /\ Active /\ t < launch.created_at + 604800 =>
                    res.err = "LaunchNotExpired"
                /\ Active /\ t >= launch.created_at + 604800 => res.err = "Ok"
                /\ ~Active => res.err \in {"AlreadyGraduated", "RefundModeAlreadyActive"}

\* refund mode has just been enabled, more than 7 days after the creation
C24_Witness ==
    /\ lifecycle = "Open"
    /\ launch.refund_mode
    /\ ~launch.graduated
    /\ launch.refund_enabled_at = now
    /\ now >= launch.created_at + LAUNCH_DURATION_SECONDS
    /\ launch.total_shares > launch.creator_seed_shares

(***************************************************************************)
(* C25: in refund mode each position is refunded at most once and for      *)
(* exactly its basis.  A successful claim-refund or push-refund happens in *)
(* refund mode only and moves exactly position.sol_basis lamports from the *)
(* launch account to the owner of the position; on the accounts it leaves, *)
(* claim-refund and push-refund of the same position both fail; a position *)
(* that is marked claimed or closed in refund mode admits neither call,    *)
(* and no step un-marks or re-opens it.                                    *)
(***************************************************************************)
C25_RefundOnceForBasis ==
    /\ [](lifecycle = "Open" =>
            \A u \in Users :
                /\ LET r == claim_refund(Accounts, u)
                   IN  r.err = "Ok" =>
                        /\ launch.refund_mode
                        /\ r.out.paid = position[u].sol_basis
                        /\ r.S.lamports[u] = lamports[u] + position[u].sol_basis
                        /\ r.S.lamports[Launch] = lamports[Launch] - position[u].sol_basis
                        /\ r.S.position[u].has_claimed_refund
                        /\ claim_refund(r.S, u).err # "Ok"
                        /\ \A c \in Users : push_refund(r.S, c, u).err # "Ok"
                /\ \A caller \in Users :
                   LET r == push_refund(Accounts, caller, u)
                   IN  r.err = "Ok" =>
                        /\ launch.refund_mode
                        /\ r.out.paid = position[u].sol_basis
                        /\ r.S.lamports[u] =
                             lamports[u] + position[u].sol_basis
                               + (IF caller = u THEN PositionRent ELSE 0)
                        /\ r.S.lamports[Launch] = lamports[Launch] - position[u].sol_basis
                        /\ ~r.S.position[u].exists
                        /\ claim_refund(r.S, u).err # "Ok"
                        /\ \A c \in Users : push_refund(r.S, c, u).err # "Ok"
                /\ launch.refund_mode
                     /\ (position[u].has_claimed_refund \/ ~position[u].exists) =>
                        /\ claim_refund(Accounts, u).err
                              \in {"AlreadyClaimed", "AccountNotInitialized"}
                        /\ \A c \in Users :
                             push_refund(Accounts, c, u).err
                               \in {"AlreadyClaimed", "AccountNotInitialized"})
    /\ [][\A u \in Users :
            launch.refund_mode
              /\ (position[u].has_claimed_refund \/ ~position[u].exists) =>
                position'[u].has_claimed_refund \/ ~position'[u].exists]_vars

\* refund mode with one buyer refunded by claim-refund (marked, basis paid)
\* and another by push-refund (position closed)
C25_Witness ==
    /\ lifecycle = "Open"
    /\ launch.refund_mode
    /\ \E u, v \in Holders :
          /\ u # v
          /\ position[u].has_claimed_refund
          /\ position[u].sol_basis > 0
          /\ lamports[u] = InitialFunds[u] - PositionRent
                              - deposited[u] - (deposited[u] \div 99)
                              + position[u].sol_basis
          /\ ~position[v].exists
          /\ deposited[v] > 0

\* the clock of the state and later clock values, for the calls of
\* claim-vesting the formulas evaluate
VestingTimes == { now, now + 1, now + 86400, now + 1000000 }

(***************************************************************************)
(* C26: the vesting unlock amount.  A successful claim-vesting at time t   *)
(* moves exactly v - creator_claimed_shares shares, where v is             *)
(* floor(seed_shares * min(t - vesting_start, 3628800) / 3628800) (the v   *)
(* with v * 3628800 <= seed_shares * e < (v + 1) * 3628800), from the      *)
(* creator position's locked_shares to its shares, advances                *)
(* position.vested_shares_claimed and launch.creator_claimed_shares by the *)
(* same amount, and leaves total_shares unchanged.                         *)
(***************************************************************************)
C26_VestingUnlockAmount ==
    lifecycle = "Open" =>
        \A t \in VestingTimes :
            LET res == claim_vesting(Accounts, Creator, t)
                e   == IF t - launch.vesting_start <= 3628800
                       THEN t - launch.vesting_start ELSE 3628800
                amt == res.out.shares
                v   == amt + launch.creator_claimed_shares
                old == position[Creator]
                new == res.S.position[Creator]
            IN  res.err = "Ok" =>
                    /\ amt > 0
                    /\ WideLeq(WideMul(v, 3628800),
                               WideMul(launch.creator_seed_shares, e))
                    /\ ~WideLeq(WideMul(v + 1, 3628800),
                                WideMul(launch.creator_seed_shares, e))
                    /\ new.locked_shares = old.locked_shares - amt
                    /\ new.shares = old.shares + amt
                    /\ new.vested_shares_claimed = old.vested_shares_claimed + amt
                    /\ res.S.launch.creator_claimed_shares
                         = launch.creator_claimed_shares + amt
                    /\ res.S.launch.total_shares = launch.total_shares
                    /\ res.S.launch.creator_seed_shares = launch.creator_seed_shares

\* half of the 42 days after graduation the creator has claimed 7959 of the
\* 15919 seed shares (the floor of 7959.5)
C26_Witness ==
    /\ lifecycle = "Open"
    /\ launch.graduated
    /\ now - launch.vesting_start = VESTING_DURATION_SECONDS \div 2
    /\ launch.creator_seed_shares = 15919
    /\ launch.creator_claimed_shares = 7959
    /\ position[Creator].vested_shares_claimed = 7959
    /\ position[Creator].locked_shares = 7960
    /\ position[Creator].shares >= 7959

\* the creator has claimed all that is vested at the current clock value:
\* so it is after a successful claim-vesting at this timestamp, whatever
\* other instructions ran since, until time passes
ClaimedUpToNow ==
    /\ launch.graduated
    /\ launch.creator_claimed_shares > 0
    /\ launch.creator_claimed_shares
          = total_vested_seed(launch.creator_seed_shares, launch.vesting_start, now)

\* a claim-vesting at time t that succeeds leaves accounts on which a
\* further claim-vesting at the same t reports NoSharesToClaim, computes no
\* shares and changes nothing
C27_SecondCallFindsNothing ==
    \A t \in VestingTimes :
        LET first == claim_vesting(Accounts, Creator, t)
        IN  first.err = "Ok" =>
              LET again == claim_vesting(first.S, Creator, t)
              IN  /\ again.err = "NoSharesToClaim"
                  /\ again.out.shares = 0
                  /\ again.S = first.S

(***************************************************************************)
(* C27 as stated: claim-vesting is idempotent at a fixed time.  After a    *)
(* successful claim-vesting at timestamp t, any further claim-vesting at   *)
(* the same timestamp yields no shares, reports NoSharesToClaim and leaves *)
(* the position and the launch unchanged.                                  *)
(* When the claim at t vested the seed in full, the creator may claim      *)
(* tokens at the same timestamp, which closes the position account; a      *)
(* further claim-vesting at t then fails on the missing account.           *)
(***************************************************************************)
C27_IdempotentAsStated ==
    lifecycle = "Open" =>
        /\ C27_SecondCallFindsNothing
        /\ ClaimedUpToNow =>
              LET again == claim_vesting(Accounts, Creator, now)
              IN  /\ again.err = "NoSharesToClaim"
                  /\ again.out.shares = 0
                  /\ again.S = Accounts

(***************************************************************************)
(* C27, amended: claim-vesting is idempotent at a fixed time.  After a     *)
(* successful claim-vesting at timestamp t, any further claim-vesting at   *)
(* the same timestamp, whatever other instructions ran since, yields no    *)
(* shares and leaves every account as it was; it reports NoSharesToClaim   *)
(* while the creator's position account exists, and fails on the missing   *)
(* account once claim-tokens has closed the position.                      *)
(***************************************************************************)
C27_ClaimVestingIdempotent ==
    lifecycle = "Open" =>
        /\ C27_SecondCallFindsNothing
        /\ ClaimedUpToNow =>
              LET again == claim_vesting(Accounts, Creator, now)
              IN  /\ again.err = IF position[Creator].exists
                                 THEN "NoSharesToClaim"
                                 ELSE "AccountNotInitialized"
                  /\ again.out.shares = 0
                  /\ again.S = Accounts
        /\ launch.graduated /\ position[Creator].exists
              /\ launch.creator_claimed_shares > 0
              /\ position[Creator].last_updated_at = now =>
                ClaimedUpToNow

\* the creator has claimed a part of the seed at the current clock value,
\* shares remain locked, and a second claim finds nothing
C27_Witness ==
    /\ lifecycle = "Open"
    /\ launch.graduated
    /\ position[Creator].last_updated_at = now
    /\ launch.creator_claimed_shares > 0
    /\ position[Creator].locked_shares > 0
    /\ claim_vesting(Accounts, Creator, now).err = "NoSharesToClaim"

\* clock values from the end of the vesting period on that are not in the
\* past of the state
FullVestingTimes ==
    { t \in { launch.vesting_start + 3628800,
              launch.vesting_start + 3628800 + 1,
              launch.vesting_start + 2 * 3628800 } : t >= now }

\* the parts of C28 that do not depend on the creator's position account: a
\* claim from 42 days on, with shares still locked, succeeds and brings the
\* vested total to seed_shares and locked_shares to 0 whatever was claimed
\* before; a claim at elapsed 0 finds nothing
C28_VestsInFull ==
    /\ \A t \in FullVestingTimes :
          LET res == claim_vesting(Accounts, Creator, t)
          IN  /\ res.err = "Ok" =>
                   /\ res.S.launch.creator_claimed_shares = launch.creator_seed_shares
                   /\ res.S.position[Creator].vested_shares_claimed
                        = launch.creator_seed_shares
                   /\ res.S.position[Creator].locked_shares = 0
                   /\ \A later \in { t, t + 1, t + 3628800 } :
                         claim_vesting(res.S, Creator, later).err = "NoSharesToClaim"
              /\ position[Creator].exists
                   /\ launch.creator_claimed_shares < launch.creator_seed_shares =>
                     res.err = "Ok"
    /\ now = launch.vesting_start =>
          /\ claim_vesting(Accounts, Creator, now).err = "NoSharesToClaim"
          /\ claim_vesting(Accounts, Creator, now).out.shares = 0
          /\ total_vested_seed(launch.creator_seed_shares, launch.vesting_start,
                               now) = 0

(***************************************************************************)
(* C28 as stated: a claim-vesting made 42 days or more after the start     *)
(* brings the vested total to seed_shares (locked_shares 0) whatever       *)
(* partial claims preceded it, every claim-vesting after that reports      *)
(* NoSharesToClaim, and a claim at elapsed 0 has claimable 0.              *)
(* Once the seed is vested in full the creator may claim tokens, which     *)
(* closes the position account; claim-vesting then fails on the missing    *)
(* account, not with NoSharesToClaim.                                      *)
(***************************************************************************)
C28_FullVestingAsStated ==
    lifecycle = "Open" /\ launch.graduated =>
        /\ C28_VestsInFull
        /\ launch.creator_claimed_shares = launch.creator_seed_shares =>
              \A t \in VestingTimes :
                 claim_vesting(Accounts, Creator, t).err = "NoSharesToClaim"

(***************************************************************************)
(* C28, amended: a claim-vesting made 42 days or more after the start      *)
(* brings the vested total to seed_shares (locked_shares 0) whatever       *)
(* partial claims preceded it, and a claim at elapsed 0 has claimable 0;   *)
(* every claim-vesting after full vesting yields no shares: it reports     *)
(* NoSharesToClaim while the creator's position account exists, and fails  *)
(* on the missing account once claim-tokens has closed the position.       *)
(***************************************************************************)
C28_FullVesting ==
    lifecycle = "Open" /\ launch.graduated =>
        /\ C28_VestsInFull
        /\ launch.creator_claimed_shares = launch.creator_seed_shares =>
              \A t \in VestingTimes :
                 LET res == claim_vesting(Accounts, Creator, t)
                 IN  /\ res.out.shares = 0
                     /\ res.err = IF position[Creator].exists
                                  THEN "NoSharesToClaim"
                                  ELSE "AccountNotInitialized"

\* 42 days after graduation the seed is vested in full, the position is
\* still there, and a further claim finds nothing
C28_Witness ==
    /\ lifecycle = "Open"
    /\ launch.graduated
    /\ now - launch.vesting_start >= VESTING_DURATION_SECONDS
    /\ launch.creator_seed_shares > 0
    /\ launch.creator_claimed_shares = launch.creator_seed_shares
    /\ position[Creator].exists
    /\ position[Creator].locked_shares = 0
    /\ position[Creator].vested_shares_claimed = launch.creator_seed_shares
    /\ claim_vesting(Accounts, Creator, now).err = "NoSharesToClaim"

\* amount = floor(shares * 800_000_000 * 10^9 / total), for amount =
\* amount[1] * 10^9 + amount[2]: with r1 = shares * 800_000_000 -
\* amount[1] * total and r2 = r1 * 10^9 - amount[2] * total, both r1 and r2
\* lie in 0 .. total - 1
IsTokenEntitlement(amount, shares, total) ==
    LET r1 == WideSub(WideMul(shares, 800000000), WideMul(amount[1], total))
        r2 == WideSub(<< r1[2], 0 >>, WideMul(amount[2], total))
    IN  /\ amount[2] >= 0 /\ amount[2] < WB
        /\ r1[1] = 0 /\ r1[2] >= 0 /\ r1[2] < total
        /\ r2[1] = 0 /\ r2[2] >= 0 /\ r2[2] < total

(***************************************************************************)
(* C29: the token claim entitlement.  A successful claim-tokens happens on *)
(* a graduated launch with total_shares_at_graduation > 0, transfers       *)
(* exactly floor(position.shares * 800_000_000 * 10^9 /                    *)
(* total_shares_at_graduation) tokens from the launch to the position's    *)
(* user, and leaves the position with shares 0 and closed; with a snapshot *)
(* of 0 the call is refused.                                               *)
(***************************************************************************)
C29_TokenEntitlement ==
    lifecycle = "Open" =>
        \A u \in Users :
            /\ \A payer \in Users, k \in BOOLEAN, a \in TokenAccounts :
               LET res == claim_tokens(Accounts, payer, u, k, a)
               IN  res.err = "Ok" =>
                    /\ a = OwnTokenAccount
                    /\ launch.graduated
                    /\ launch.total_shares_at_graduation > 0
                    /\ position[u].shares > 0
                    /\ res.out.shares = position[u].shares
                    /\ IsTokenEntitlement(res.out.tokens, position[u].shares,
                                          launch.total_shares_at_graduation)
                    /\ res.S.tokens[u] = WideAdd(tokens[u], res.out.tokens)
                    /\ res.S.tokens[Launch] = WideSub(tokens[Launch], res.out.tokens)
                    /\ res.S.position[u].shares = 0
                    /\ ~res.S.position[u].exists
                    /\ res.S.lamports =
                          [lamports EXCEPT ![payer] =
                              @ + PositionRent - (IF k THEN 0 ELSE TokenAccountRent)]
            /\ \A a \in TokenAccounts :
                 claim_tokens([Accounts EXCEPT !.launch.total_shares_at_graduation = 0],
                              u, u, TRUE, a).err # "Ok"
            /\ launch.graduated /\ position[u].exists /\ u # Creator =>
                  claim_tokens([Accounts EXCEPT !.launch.total_shares_at_graduation = 0],
                               u, u, TRUE, OwnTokenAccount).err = "InvalidCalculation"

\* a holder and the creator have claimed their tokens: their positions are
\* closed and the launch holds the rest of the 800_000_000 * 10^9
C29_Witness ==
    /\ lifecycle = "Open"
    /\ launch.graduated
    /\ launch.total_shares_at_graduation > launch.creator_seed_shares
    /\ \E u \in Holders :
          /\ tokens[u] # WideZero
          /\ ~position[u].exists
          /\ tokens[Creator] # WideZero
          /\ ~position[Creator].exists
          /\ WideAdd(tokens[Launch], WideAdd(tokens[u], tokens[Creator]))
                = WideSub(TotalSupplyUnits, TokensForLpUnits)

(***************************************************************************)
(* C30: the creator cannot claim tokens before vesting is fully claimed.   *)
(* In every state, claim-tokens on the creator's own position fails while  *)
(* that position has locked_shares > 0, with VestingNotComplete once the   *)
(* launch is graduated (before graduation the token account of the launch *)
(* does not exist, and with a token account of somebody else the           *)
(* NotGraduated constraint comes first); it succeeds only when             *)
(* locked_shares = 0 and claim-vesting has moved all seed shares           *)
(* (vested_shares_claimed = creator_claimed_shares = creator_seed_shares). *)
(* The code tests creator_seed_shares - vested_shares_claimed, which       *)
(* equals locked_shares as long as the creator's position exists.          *)
(***************************************************************************)
C30_CreatorClaimsAfterVesting ==
    lifecycle = "Open" =>
        LET res == claim_tokens(Accounts, Creator, Creator, TRUE, OwnTokenAccount)
            pos == position[Creator]
        IN  /\ pos.locked_shares > 0 =>
                  \A payer \in Users, k \in BOOLEAN, a \in TokenAccounts :
                      claim_tokens(Accounts, payer, Creator, k, a).err # "Ok"
            /\ launch.graduated /\ pos.locked_shares > 0 =>
                  res.err = "VestingNotComplete"
            /\ ~launch.graduated =>
                  /\ res.err = "AccountNotInitialized"
                  /\ claim_tokens(Accounts, Creator, Creator, TRUE,
                                  OtherTokenAccount).err
                        = IF pos.exists THEN "NotGraduated"
                          ELSE "AccountNotInitialized"
            /\ (\E payer \in Users, k \in BOOLEAN, a \in TokenAccounts :
                    claim_tokens(Accounts, payer, Creator, k, a).err = "Ok") =>
                  /\ res.err = "Ok"
                  /\ pos.locked_shares = 0
                  /\ pos.vested_shares_claimed = launch.creator_seed_shares
                  /\ launch.creator_claimed_shares = launch.creator_seed_shares
            /\ pos.exists =>
                  pos.locked_shares
                    = launch.creator_seed_shares - pos.vested_shares_claimed

\* a graduated launch whose creator has vested a part of the seed and holds
\* unlocked shares: the token claim is refused
C30_Witness ==
    /\ lifecycle = "Open"
    /\ launch.graduated
    /\ position[Creator].shares > 0
    /\ position[Creator].locked_shares > 0
    /\ position[Creator].vested_shares_claimed > 0
    /\ claim_tokens(Accounts, Creator, Creator, TRUE, OwnTokenAccount).err
          = "VestingNotComplete"

(***************************************************************************)
(* C31: the yield split sums to the whole.  For every yield amount Y the   *)
(* four parts of poke are caller = floor(Y * 100 / 10000), creator =       *)
(* floor(Y * 6000 / 10000), protocol = floor(Y * 1000 / 10000) and the     *)
(* remainder, none of them negative, and they sum to Y (10_000, 600_000,   *)
(* 100_000 and 290_000 for Y = 1_000_000); Vault's                         *)
(* calculate_yield_distribution gives the same parts; and after any number *)
(* of pokes total_yield_collected = total_caller_paid + total_creator_paid *)
(* + total_protocol_paid + total_compounded.                               *)
(***************************************************************************)
C31_YieldSplitSumsToWhole ==
    /\ calc.done =>
          LET Y == calc.args[1]
              d == calc.val
          IN  \* floor(Y * 100 / 10000) = floor(Y / 100)
              /\ d.caller = Y \div 100
              \* floor(Y * 6000 / 10000) = floor(3 * Y / 5), with Y = 5 * q + r
              /\ d.creator = 3 * (Y \div 5) + (3 * (Y % 5)) \div 5
              \* floor(Y * 1000 / 10000) = floor(Y / 10)
              /\ d.protocol = Y \div 10
              /\ d.compounded >= 0
              /\ d.caller + d.creator + d.protocol + d.compounded = Y
              /\ calc.vault_rs = d
              /\ Y = 1000000 => d = [caller |-> 10000, creator |-> 600000,
                                     protocol |-> 100000, compounded |-> 290000]
    /\ vault.total_yield_collected
         = vault.total_caller_paid + vault.total_creator_paid
             + vault.total_protocol_paid + vault.total_compounded

\* the split of 1_000_000 and of a yield no rate divides were computed, and
\* the vault was poked three times
C31_Witness ==
    /\ calc.done
    /\ calc.args[1] \in {1000000, 10001}
    /\ calc.val.caller + calc.val.creator + calc.val.protocol + calc.val.compounded
         = calc.args[1]
    /\ vault.total_yield_collected = 3 * SIMULATED_YIELD
    /\ vault.total_compounded = 870000

(***************************************************************************)
(* C32: claim-creator-fees succeeds only on a graduated launch, for its    *)
(* creator, with creator_accrued_fees > 0; a successful call moves exactly *)
(* the accrued amount from the launch account to the creator, resets       *)
(* creator_accrued_fees to 0 and adds the amount to total_fees_earned.     *)
(* The sum total_fees_earned + creator_accrued_fees grows by the creator   *)
(* fee of each successful buy and by nothing else, so what has been paid   *)
(* and what is still accrued are together the creator fees of the buys.    *)
(***************************************************************************)
C32_CreatorFeesClaimed ==
    /\ [](lifecycle = "Open" =>
            \A caller \in Users, stats_of \in Users :
                LET r == claim_creator_fees(Accounts, caller, stats_of)
                    amount == launch.creator_accrued_fees
                IN  r.err = "Ok" =>
                      /\ launch.graduated
                      /\ caller = Creator
                      /\ stats_of = caller
                      /\ amount > 0
                      /\ r.out.paid = amount
                      /\ r.S.lamports[caller] = lamports[caller] + amount
                      /\ r.S.lamports[Launch] = lamports[Launch] - amount
                      /\ r.S.launch.creator_accrued_fees = 0
                      /\ r.S.creator_stats[Creator].total_fees_earned
                            = creator_stats[Creator].total_fees_earned + amount)
    /\ [][LET due  == creator_stats[Creator].total_fees_earned + launch.creator_accrued_fees
              due2 == creator_stats'[Creator].total_fees_earned + launch'.creator_accrued_fees
          IN  IF deposited' # deposited
              THEN \E buyer \in Users, sol_amount \in BuyAmounts,
                      min_shares_out \in MinSharesOut :
                     LET r == buy(Accounts, buyer, sol_amount, min_shares_out, now)
                     IN  /\ r.err = "Ok"
                         /\ launch' = r.S.launch
                         /\ r.out.creator_fee
                              = (sol_amount * get_creator_fee_bps(creator_stats[Creator]))
                                  \div BPS_DENOMINATOR
                         /\ due2 = due + r.out.creator_fee
              ELSE due2 = due]_vars

\* a graduated launch whose creator, in the 50 bps tier, has been paid the
\* fee of a buy of 400 lamports and has nothing left to claim
C32_Witness ==
    /\ lifecycle = "Open"
    /\ launch.graduated
    /\ launch.creator_accrued_fees = 0
    /\ creator_stats[Creator].total_fees_earned = 2
    /\ creator_stats[Creator].graduated_count = 2
    /\ deposited["alice"] = 396
    /\ lamports[Launch] = LaunchRent
    /\ claim_creator_fees(Accounts, Creator, Creator).err = "NoFeesToClaim"

(***************************************************************************)
(* Two launches.  The accounts of an instruction on a launch are the       *)
(* launch's own (launch, positions, vault, the launch's and the pool's     *)
(* lamports, the balances of its mint) and those it shares with every      *)
(* other launch: the program's config, the CreatorStats of its creator     *)
(* (seeds "creator_stats" + launch.creator) and the wallets.               *)
(***************************************************************************)
\* a second launch B of the same creator, created now with a seed of 100
\* lamports while the launch of the model (A) is in its current state: the
\* accounts of B
SecondLaunch ==
    create_launch_on(NewLaunchAccounts(Accounts), Creator, ValidArgs(100), now)

\* a launch B of another creator, alice
OthersLaunch ==
    create_launch_on(NewLaunchAccounts(Accounts), "alice", ValidArgs(100), now)

\* B after alice has bought for 400 lamports, if she can
BoughtInto(B) ==
    IF buy(B, "alice", 400, 1, now).err = "Ok"
    THEN buy(B, "alice", 400, 1, now).S
    ELSE B

\* the graduation of A once B exists
GraduationOfA(B) ==
    force_graduate(SharedAccounts(Accounts, B), Admin, now, Lenient)

\* the fields of a result that the claim names: the error, the shares
\* minted, the fees, the amount paid, and the launch and positions left
ResultOn(r) ==
    [err |-> r.err, out |-> r.out, launch |-> r.S.launch, position |-> r.S.position]

\* the operations on B that are compared, as functions of B's accounts
OperationsOn(B) ==
    { ResultOn(buy(B, u, a, 1, now)) : u \in Users, a \in BuyAmounts }
    \cup { ResultOn(sell(B, u, B.position[u].shares, 0, now)) : u \in Users }
    \cup { ResultOn(claim_refund(
                enable_refund(B, now + LAUNCH_DURATION_SECONDS).S, u)) : u \in Users }

(***************************************************************************)
(* C33 as stated: launches are fully isolated, so that every operation on  *)
(* a launch B gives the same result (shares minted, fees split and         *)
(* accrued, refund paid) whether or not another launch A of the same       *)
(* creator has graduated before it.                                        *)
(***************************************************************************)
C33_FullyIsolatedAsStated ==
    (Active /\ SecondLaunch.err = "Ok"
        /\ GraduationOfA(SecondLaunch.S).err = "Ok") =>
      LET B == BoughtInto(SecondLaunch.S)
          G == GraduationOfA(B).S
      IN  OperationsOn(SharedAccounts(B, G)) = OperationsOn(B)

(***************************************************************************)
(* C33: launches are isolated except through the CreatorStats of their     *)
(* creator.  A step on a launch A writes the program's config only when   *)
(* it creates the launch (total_launches + 1; the price feed apart), and   *)
(* writes a creator's statistics only by counting a launch, a graduation   *)
(* or claimed fees.  The graduation of A                                   *)
(* leaves every sell and refund on a launch B as it was, and every buy on  *)
(* B mints the same shares for the same net amount and total fee; but on a *)
(* launch B of the same creator the creator's part of the fee of a buy is  *)
(* floor(amount * 50 / 10000) from then on, where it was                   *)
(* floor(amount * 30 / 10000) for a creator who had not graduated a launch *)
(* before, and a buy whose buyer can pay the fees as split at 30 bps and   *)
(* not as split at 50 bps fails.  On a launch B of another creator every   *)
(* buy gives the same result.                                              *)
(***************************************************************************)
C33_IsolatedButForCreatorStats ==
    /\ []((Active /\ SecondLaunch.err = "Ok"
            /\ GraduationOfA(SecondLaunch.S).err = "Ok") =>
          LET B == BoughtInto(SecondLaunch.S)
              G == GraduationOfA(B).S
              after == SharedAccounts(B, G)
              rate == IF creator_stats[Creator].graduated_count > 0 THEN 50 ELSE 30
          IN  /\ G.config = B.config
              /\ G.creator_stats =
                    [B.creator_stats EXCEPT ![Creator].graduated_count = @ + 1]
              /\ ResultOn(sell(after, "alice", B.position["alice"].shares, 0, now))
                   = ResultOn(sell(B, "alice", B.position["alice"].shares, 0, now))
              /\ ResultOn(claim_refund(
                      enable_refund(after, now + LAUNCH_DURATION_SECONDS).S, "alice"))
                   = ResultOn(claim_refund(
                      enable_refund(B, now + LAUNCH_DURATION_SECONDS).S, "alice"))
              /\ \A u \in Holders, a \in BuyAmounts \ {0} :
                    LET r1 == buy(B, u, a, 1, now)
                        r2 == buy(after, u, a, 1, now)
                    IN  /\ r2.out.shares = r1.out.shares
                        /\ r2.out.net_sol = r1.out.net_sol
                        /\ r2.out.total_fee = r1.out.total_fee
                        /\ r2.S.position = r1.S.position
                        /\ r2.S.launch.total_shares = r1.S.launch.total_shares
                        /\ r2.S.launch.total_sol = r1.S.launch.total_sol
                        /\ r1.out.creator_fee = (a * rate) \div 10000
                        /\ r2.out.creator_fee = (a * 50) \div 10000
                        \* the buyer is charged the fees as they are split, so
                        \* that a wallet may cover the buy at 30 bps only
                        /\ r2.err # r1.err =>
                              /\ r1.err = "Ok"
                              /\ r2.err = "InsufficientLamports"
                              /\ r2.out.creator_fee > r1.out.creator_fee)
    /\ []((Active /\ OthersLaunch.err = "Ok") =>
          LET B == BoughtInto(OthersLaunch.S)
              G == GraduationOfA(B).S
          IN  /\ B.launch.creator = "alice"
              /\ \A u \in Holders, a \in BuyAmounts \ {0} :
                    ResultOn(buy(SharedAccounts(B, G), u, a, 1, now))
                      = ResultOn(buy(B, u, a, 1, now)))
    /\ [][/\ config'.total_launches # config.total_launches =>
                config'.total_launches = config.total_launches + 1
          /\ config'.paused = config.paused
          /\ creator_stats' # creator_stats =>
                \/ /\ config'.total_launches = config.total_launches + 1
                   /\ \E c \in Users :
                        creator_stats' =
                          [creator_stats EXCEPT ![c] =
                              [initialized |-> TRUE, creator |-> c,
                               graduated_count |-> @.graduated_count,
                               total_fees_earned |-> @.total_fees_earned,
                               total_launches |-> @.total_launches + 1]]
                \/ /\ ~launch.graduated /\ launch'.graduated
                   /\ creator_stats' =
                        [creator_stats EXCEPT ![Creator].graduated_count = @ + 1]
                \/ /\ launch.creator_accrued_fees > 0
                   /\ launch'.creator_accrued_fees = 0
                   /\ creator_stats' =
                        [creator_stats EXCEPT ![Creator].total_fees_earned =
                            @ + launch.creator_accrued_fees]]_vars

\* A is the first launch, not yet graduated, of a creator who opens a second
\* launch B; alice's buy of 400 lamports on B accrues 1 lamport to the
\* creator before A graduates and 2 lamports after
C33_Witness ==
    /\ lifecycle = "Open"
    /\ creator_stats[Creator].graduated_count = 0
    /\ launch.total_shares > launch.creator_seed_shares
    /\ SecondLaunch.err = "Ok"
    /\ GraduationOfA(SecondLaunch.S).err = "Ok"
    /\ LET B == SecondLaunch.S
           G == GraduationOfA(B).S
       IN  /\ buy(B, "alice", 400, 1, now).err = "Ok"
           /\ buy(B, "alice", 400, 1, now).out.creator_fee = 1
           /\ buy(SharedAccounts(B, G), "alice", 400, 1, now).err = "Ok"
           /\ buy(SharedAccounts(B, G), "alice", 400, 1, now).out.creator_fee = 2
           /\ buy(SharedAccounts(B, G), "alice", 400, 1, now).out.shares
                = buy(B, "alice", 400, 1, now).out.shares

(***************************************************************************)
(* C34: the exclusivity marker is never left set.  In every state between  *)
(* two top-level operations operation_in_progress is FALSE, and every      *)
(* buy, sell and claim-vesting, successful or failed, leaves it FALSE in   *)
(* the accounts that persist, also when the handler returned its error     *)
(* after setting the marker (the slippage failure of buy, the early        *)
(* returns of sell and of claim-vesting).                                  *)
(***************************************************************************)
C34_MarkerNeverLeftSet ==
    /\ ~launch.operation_in_progress
    /\ lifecycle = "Open" =>
          \A u \in Users :
              /\ \A a \in BuyAmounts, m \in MinSharesOut :
                    ~Persist(buy(Accounts, u, a, m, now)).launch.operation_in_progress
              /\ \A n \in SellShares(u), m \in SellMinSolOut(u) :
                    ~Persist(sell(Accounts, u, n, m, now)).launch.operation_in_progress
              /\ \A t \in VestingTimes \cup {launch.vesting_start - 1} :
                    ~Persist(claim_vesting(Accounts, u, t)).launch.operation_in_progress

\* a buy has succeeded, and in the state it left a buy and a sale of half a
\* position fail on slippage, each after its handler had set the marker
C34_Witness ==
    /\ lifecycle = "Open"
    /\ trades > 0
    /\ ~launch.operation_in_progress
    /\ LET r == buy(Accounts, "alice", 400, HugeShares, now)
       IN  r.err = "SlippageExceeded" /\ r.S.launch.operation_in_progress
    /\ \E u \in Users :
         LET r == sell(Accounts, u, position[u].shares \div 2,
                       position[u].sol_basis, now)
         IN  r.err = "SlippageExceeded" /\ r.S.launch.operation_in_progress

(***************************************************************************)
(* C35: custody solvency.  While a launch is active or in refund mode the  *)
(* lamports of the launch account above its rent-exempt minimum are at     *)
(* least total_sol + creator_accrued_fees, and no sell, claim-refund or     *)
(* push-refund fails for lack of funds: none returns InsufficientFunds,    *)
(* and no sale fails in its checked subtractions, of which the last is the *)
(* one on the lamports of the launch account.                              *)
(***************************************************************************)
C35_CustodySolvency ==
    (lifecycle = "Open" /\ ~launch.graduated) =>
        /\ lamports[Launch] - LaunchRent
              >= launch.total_sol + launch.creator_accrued_fees
        /\ \A u \in Users :
              /\ claim_refund(Accounts, u).err # "InsufficientFunds"
              /\ \A caller \in Users :
                    push_refund(Accounts, caller, u).err # "InsufficientFunds"
              /\ \A n \in SellShares(u), m \in SellMinSolOut(u) :
                    sell(Accounts, u, n, m, now).err
                        \notin {"InsufficientFunds", "InsufficientLamports",
                                 "MathOverflow"}

\* refund mode after two buys: one buyer has been refunded all but the fees,
\* the other's refund is still owed and covered
C35_Witness ==
    /\ lifecycle = "Open"
    /\ launch.refund_mode
    /\ launch.creator_accrued_fees > 0
    /\ lamports[Launch] - LaunchRent
          >= launch.total_sol + launch.creator_accrued_fees
    /\ \E u, v \in Holders :
          /\ position[u].has_claimed_refund
          /\ position[u].sol_basis > 0
          /\ lamports[u] < InitialFunds[u]
          /\ ~position[v].has_claimed_refund
          /\ position[v].sol_basis > 0
          /\ claim_refund(Accounts, v).err = "Ok"

(***************************************************************************)
(* C36: the holder allocation is never over-distributed.  On a graduated   *)
(* launch, whatever the order of the claim-vesting and claim-tokens calls, *)
(* the tokens paid out by claim-tokens sum to at most 800_000_000 * 10^9   *)
(* and the launch holds the rest; no claim-tokens fails for lack of tokens *)
(* in the launch's account; a position that is paid had received nothing   *)
(* before, and a second claim-tokens for it is refused.                    *)
(***************************************************************************)
HolderAllocationUnits == << TOKENS_FOR_HOLDERS, 0 >>

TokensPaidOut ==
    WideAdd(tokens[Creator], WideAdd(tokens["alice"], tokens["bob"]))

C36_HolderAllocationBounded ==
    /\ []((lifecycle = "Open" /\ launch.graduated) =>
            /\ WideLeq(TokensPaidOut, HolderAllocationUnits)
            /\ WideAdd(TokensPaidOut, tokens[Launch]) = HolderAllocationUnits
            /\ \A u \in Users, payer \in Users, k \in BOOLEAN, a \in TokenAccounts :
                  LET r == claim_tokens(Accounts, payer, u, k, a)
                  IN  /\ r.err # "InsufficientFunds"
                      /\ r.err = "Ok" =>
                            /\ tokens[u] = WideZero
                            /\ \A b \in TokenAccounts :
                                  claim_tokens(r.S, payer, u, TRUE, b).err
                                      = "AccountNotInitialized"
                            /\ \A t \in VestingTimes :
                                  LET v == claim_vesting(r.S, u, t)
                                  IN  claim_tokens(IF v.err = "Ok" THEN v.S ELSE r.S,
                                                   payer, u, TRUE, a).err
                                        = "AccountNotInitialized")
    /\ [][\A u \in Users :
            tokens'[u] # tokens[u] =>
                /\ tokens[u] = WideZero
                /\ position[u].exists /\ ~position'[u].exists
                /\ tokens'[u] = claim_tokens(Accounts, u, u, TRUE,
                                             OwnTokenAccount).out.tokens]_vars

\* the creator, fully vested, and a buyer have both claimed; together they
\* held every share, and one unit of the allocation is left in the launch
C36_Witness ==
    /\ lifecycle = "Open"
    /\ launch.graduated
    /\ tokens[Creator] # WideZero
    /\ tokens["alice"] # WideZero
    /\ ~position[Creator].exists
    /\ ~position["alice"].exists
    /\ ~position["bob"].exists
    /\ tokens[Launch] = << 0, 1 >>
    /\ WideAdd(TokensPaidOut, tokens[Launch]) = HolderAllocationUnits

(***************************************************************************)
(* C37: the curve never mints shares worth more than was paid.  For every  *)
(* amount a and supply s for which both calls succeed,                     *)
(* buy_quote(buy_return(a, s), s) <= a, and an amount of 0 mints nothing   *)
(* at no cost.                                                             *)
(***************************************************************************)
C37_SharesNotWorthMoreThanPaid ==
    (calc.fn = "buy_quote_of_buy_return" /\ calc.done) =>
        /\ calc.val >= 0
        /\ calc.val <= calc.args[1]
        /\ calc.args[1] = 0 => calc.val = 0

\* 99 lamports at supply 15919 mint 6594 shares, which cost 98 lamports
C37_Witness ==
    /\ calc.fn = "buy_quote_of_buy_return" /\ calc.done
    /\ calc.args = <<99, 15919>>
    /\ buy_return(99, 15919) = 6594
    /\ calc.val = 98

(***************************************************************************)
(* C38: no stranded basis.  While a launch is active every position with   *)
(* shares = 0 has sol_basis = 0: a sale of all the shares of a position    *)
(* pays its whole remaining basis and leaves none, and a successful buy    *)
(* credits at least one share together with its basis.                     *)
(***************************************************************************)
C38_NoStrandedBasis ==
    Active =>
        \A u \in Users :
            /\ position[u].shares = 0 => position[u].sol_basis = 0
            /\ position[u].shares > 0 =>
                  \A m \in SellMinSolOut(u) :
                      LET r == sell(Accounts, u, position[u].shares, m, now)
                      IN  /\ r.err = "Ok"
                          /\ r.out.paid = position[u].sol_basis
                          /\ r.S.position[u].shares = 0
                          /\ r.S.position[u].sol_basis = 0
            /\ \A a \in BuyAmounts, m \in MinSharesOut :
                  LET r == buy(Accounts, u, a, m, now)
                  IN  r.err = "Ok" =>
                        /\ r.out.shares >= 1
                        /\ r.out.net_sol >= 1
                        /\ r.S.position[u].shares = position[u].shares + r.out.shares
                        /\ r.S.position[u].sol_basis
                              = position[u].sol_basis + r.out.net_sol

\* a buyer has bought and has sold the whole position: no shares and no
\* basis are left, and the buyer has been paid what the buy deposited
C38_Witness ==
    /\ Active
    /\ trades = 2
    /\ \E u \in Holders :
          /\ position[u].exists
          /\ position[u].shares = 0
          /\ position[u].sol_basis = 0
          /\ deposited[u] > 0
          /\ paid_out[u] = deposited[u]

(***************************************************************************)
(* C39: claim-refund and push-refund apply the same accounting.  In every  *)
(* state of refund mode and for every position, the two instructions       *)
(* either both fail or both succeed, and then they pay the same amount     *)
(* from the launch account to the owner of the position and leave the      *)
(* launch with the same total_shares and total_sol.                        *)
(* The code takes position.shares off total_shares in claim-refund and     *)
(* position.shares + position.locked_shares in push-refund, so the two     *)
(* differ on the position of a creator who has also bought.                *)
(***************************************************************************)
C39_SameRefundAccounting ==
    (lifecycle = "Open" /\ launch.refund_mode) =>
        \A u \in Users, caller \in Users :
            LET c == claim_refund(Accounts, u)
                p == push_refund(Accounts, caller, u)
            IN  /\ c.err = p.err
                /\ c.err = "Ok" =>
                      /\ c.out.paid = p.out.paid
                      /\ c.S.lamports[Launch] = p.S.lamports[Launch]
                      /\ p.S.lamports[u]
                            = c.S.lamports[u]
                                + (IF caller = u THEN PositionRent ELSE 0)
                      /\ c.S.launch.total_sol = p.S.launch.total_sol
                      /\ c.S.launch.total_shares = p.S.launch.total_shares

====
